---- MODULE Spec2Model ----
(***************************************************************************)
(* A model of ninjar: the action runner of BuildScript (main.py), the      *)
(* expression evaluator (expr.py) and the ninja generator with its Stage / *)
(* Query pipeline (ninja.py).                                              *)
(*                                                                         *)
(* Each component has its own specification over its own variables; the    *)
(* variables of the other components keep their initial value.             *)
(*   SpecRun   BuildScript._run_actions / _run_single_action               *)
(***************************************************************************)
EXTENDS Integers, Sequences, FiniteSets, TLC

VARIABLES
    actions,      \* BuildScript.actions: name -> Action (its deps list)
    need_run,     \* the list handed to _run_actions
    idx,          \* position of the `for action in actions` loop of _run_actions
    stack,        \* the active calls of _run_single_action, innermost last
    track_list,   \* track_list of _run_actions: the actions already run
    log,          \* the callbacks started / ended / failed so far, in order
    error,        \* the exception that ended the run, if any
    status,       \* "running", "done" (returned) or "failed" (raised)
    e_vars,       \* eval_expr: the `vars` argument, name -> value
    old_expr,     \* eval_expr: old_expr, the expression as given
    expr,         \* eval_expr: expr, the string being rewritten
    max_step,     \* eval_expr: max_step, the passes left
    e_pc,         \* eval_expr: "escape", "loop", "check", "returned", "raised"
    e_out,        \* eval_expr: what the call returned or raised
    e_refs,       \* the names the substitution passes have looked up so far
    e_cyc,        \* every string handed to a pass so far, and the current
                  \* one, references a variable that lies on a reference cycle
    file_handler, \* NinjaGenerator.file_handler: the lines written so far
    closed,       \* file_handler.close() has been called
    build_item,   \* NinjaGenerator.build_item
    default_item, \* NinjaGenerator.default_item
    generated_rule, \* Stage.generated_rule of every Stage object
    gens,         \* the generator objects (Query.it) created so far
    g_log,        \* what the pipeline and the generator did, in order
    scope,        \* "open" inside the `with` block, "exited" after __exit__
    calls,        \* the script's own add_rule / add_build / add_defaults calls
    result,       \* what the last collect_files returned or raised
    declared,     \* the Action objects of the script module, as declared
    members,      \* objs: the same objects as inspect.getmembers lists them
    tool,         \* args.tool: the actions requested on the command line
    registry,     \* the keys of self.actions with their default flag, in
                  \* insertion order (self.actions[k].deps is actions[k].deps)
    s_pc,         \* where BuildScript.__init__ / run stands
    s_i,          \* the index of the loop of _add_actions
    exit_code,    \* the status the process left with, -1 while it runs
    opt_args,     \* args.option, each string as var_expr.split('=') gives it
    options_table, \* _run_build_script: options_table
    variables,    \* self.variables, in dict order, as <<name, value>> pairs
    store,        \* expr.global_variables
    self_it,      \* Query: the Elements self.it yields, in order
    q_pc,         \* where the inner_fn of fold or flat stands
    q_n,          \* how many Elements the `for item in self.it` loop has taken
    fold_type,    \* fold: inp_type
    fold_lst,     \* fold: lst
    flat_result,  \* flat: result, in dict order, as [typ, items] records
    yielded,      \* the Elements inner_fn has yielded
    ops,          \* how many fold / flat calls the script has chained
    other_it,     \* concat: the Elements other.it yields, in order
    collected     \* what collect_files returned, and for which Query

run_vars == <<actions, need_run, idx, stack, track_list, log, error, status>>

eval_vars == <<e_vars, old_expr, expr, max_step, e_pc, e_out, e_refs, e_cyc>>

gen_vars == <<file_handler, closed, build_item, default_item, generated_rule,
              gens, g_log, scope, calls, result>>

reg_vars == <<declared, members, tool, registry, s_i>>

opt_vars == <<opt_args, options_table, variables, store>>

script_vars == <<reg_vars, s_pc, exit_code, opt_vars>>

query_vars ==
    <<self_it, q_pc, q_n, fold_type, fold_lst, flat_result, yielded, ops,
      other_it, collected>>

vars == <<run_vars, eval_vars, gen_vars, script_vars, query_vars>>

(***************************************************************************)
(* Helpers on sequences                                                    *)
(***************************************************************************)
Range(s) == {s[i] : i \in DOMAIN s}

SeqsUpTo(S, n) == UNION {[1..k -> S] : k \in 0..n}

\* list.reverse()
Reverse(s) == [i \in 1..Len(s) |-> s[Len(s) + 1 - i]]

(***************************************************************************)
(* Bounds                                                                  *)
(***************************************************************************)
\* the longest `deps` list an action declares
MaxDeps == 2

\* the longest list of requested actions (`-t a b ...`)
MaxTool == 2

\* the names a script or a command line may use; "C" may be left unregistered
ActionNames == {"A", "B", "C"}

AlwaysRegistered == {"A", "B"}

(***************************************************************************)
(* BuildScript._run_actions / _run_single_action  (main.py 372-429)        *)
(***************************************************************************)
NoError == [kind |-> "none", name |-> "", hint |-> <<>>]

\* one call of _run_single_action(action, user_options, track_list, depth_list)
Frame(action, depth_list) ==
    [action |-> action, depth_list |-> depth_list, pc |-> "check", i |-> 1]

Top == stack[Len(stack)]

Pop == SubSeq(stack, 1, Len(stack) - 1)

SetTop(f) == [stack EXCEPT ![Len(stack)] = f]

\* an exception that is recorded but ends only the call that raised it
RaiseAndGoOn(kind, name, hint) ==
    /\ error' = [kind |-> kind, name |-> name, hint |-> hint]
    /\ status' = status
    /\ stack' = Pop

\* raise BuildScriptException(...): the exception leaves every active call
Raise(kind, name, hint) ==
    /\ error' = [kind |-> kind, name |-> name, hint |-> hint]
    /\ status' = "failed"
    /\ stack' = <<>>

\* `if action in track_list: return`
AlreadyRunNever(action) == FALSE

AlreadyRun(action) == action \in Range(track_list)

\* `if act.name in depth_list`
InDepthList(name, depth_list) == name \in Range(depth_list)

\* depth_list.reverse(); hint_msg = ' -> '.join(depth_list)
HintUnreversed(depth_list) == depth_list

Hint(depth_list) == Reverse(depth_list)

\* the `for act_name in act.deps` loop has run every dependency
DepsDoneAtOnce(f) == TRUE

DepsDone(f) == f.i > Len(actions[f.action].deps)

\* _run_actions: the loop is over, the method returns
RunActionsReturn ==
    /\ status = "running" /\ stack = <<>>
    /\ idx > Len(need_run)
    /\ status' = "done"
    /\ UNCHANGED <<actions, need_run, idx, stack, track_list, log, error, eval_vars, gen_vars, script_vars, query_vars>>

\* _run_actions: `if action not in self.actions: raise`
RunActionsNotFound ==
    /\ status = "running" /\ stack = <<>>
    /\ idx <= Len(need_run)
    /\ need_run[idx] \notin DOMAIN actions
    /\ Raise("cannot_find", need_run[idx], <<>>)
    /\ UNCHANGED <<actions, need_run, idx, track_list, log, eval_vars, gen_vars, script_vars, query_vars>>

\* _run_actions with a loop that stays on the action it has just run
RunActionsCallAgain ==
    /\ status = "running" /\ stack = <<>>
    /\ idx <= Len(need_run)
    /\ need_run[idx] \in DOMAIN actions
    /\ stack' = <<Frame(need_run[idx], <<>>)>>
    /\ UNCHANGED <<actions, need_run, idx, track_list, log, error, status, eval_vars, gen_vars, script_vars, query_vars>>

\* _run_actions: self._run_single_action(action, options, track_list, [])
RunActionsCall ==
    /\ status = "running" /\ stack = <<>>
    /\ idx <= Len(need_run)
    /\ need_run[idx] \in DOMAIN actions
    /\ stack' = <<Frame(need_run[idx], <<>>)>>
    /\ idx' = idx + 1
    /\ UNCHANGED <<actions, need_run, track_list, log, error, status, eval_vars, gen_vars, script_vars, query_vars>>

RunActions == RunActionsReturn \/ RunActionsNotFound \/ RunActionsCall

\* _run_single_action: `if action in track_list: return`
SkipAlreadyRun ==
    /\ status = "running" /\ stack # <<>> /\ Top.pc = "check"
    /\ AlreadyRun(Top.action)
    /\ stack' = Pop
    /\ UNCHANGED <<actions, need_run, idx, track_list, log, error, status, eval_vars, gen_vars, script_vars, query_vars>>

\* _run_single_action, were a name that is not registered passed over
DepNotFoundSkipped ==
    /\ status = "running" /\ stack # <<>> /\ Top.pc = "check"
    /\ ~AlreadyRun(Top.action)
    /\ Top.action \notin DOMAIN actions
    /\ stack' = Pop
    /\ UNCHANGED <<actions, need_run, idx, track_list, log, error, status, eval_vars, gen_vars, script_vars, query_vars>>

\* _run_single_action: `if action not in self.actions: ... raise`
DepNotFound ==
    /\ status = "running" /\ stack # <<>> /\ Top.pc = "check"
    /\ ~AlreadyRun(Top.action)
    /\ Top.action \notin DOMAIN actions
    /\ Raise("not_found", Top.action, Hint(Top.depth_list))
    /\ UNCHANGED <<actions, need_run, idx, track_list, log, eval_vars, gen_vars, script_vars, query_vars>>

\* _run_single_action: `if act.name in depth_list: ... raise`
CycleReference ==
    /\ status = "running" /\ stack # <<>> /\ Top.pc = "check"
    /\ ~AlreadyRun(Top.action)
    /\ Top.action \in DOMAIN actions
    /\ InDepthList(Top.action, Top.depth_list)
    /\ Raise("cycle", Top.action, Hint(Top.depth_list))
    /\ UNCHANGED <<actions, need_run, idx, track_list, log, eval_vars, gen_vars, script_vars, query_vars>>

\* _run_single_action: depth_list.append(act.name)
RecordCall ==
    /\ status = "running" /\ stack # <<>> /\ Top.pc = "check"
    /\ ~AlreadyRun(Top.action)
    /\ Top.action \in DOMAIN actions
    /\ ~InDepthList(Top.action, Top.depth_list)
    /\ stack' = SetTop([Top EXCEPT !.depth_list = Append(@, Top.action),
                                   !.pc = "deps"])
    /\ UNCHANGED <<actions, need_run, idx, track_list, log, error, status, eval_vars, gen_vars, script_vars, query_vars>>

\* _run_single_action: the recursive call for the next dependency, with
\* depth_list.copy()
RunDependency ==
    /\ status = "running" /\ stack # <<>> /\ Top.pc = "deps"
    /\ Top.i <= Len(actions[Top.action].deps)
    /\ stack' = Append(SetTop([Top EXCEPT !.i = @ + 1]),
                       Frame(actions[Top.action].deps[Top.i], Top.depth_list))
    /\ UNCHANGED <<actions, need_run, idx, track_list, log, error, status, eval_vars, gen_vars, script_vars, query_vars>>

\* _run_single_action: act.eval_fn(user_options, arg_table) is entered
CallbackStart ==
    /\ status = "running" /\ stack # <<>> /\ Top.pc = "deps"
    /\ DepsDone(Top)
    /\ stack' = SetTop([Top EXCEPT !.pc = "eval"])
    /\ log' = Append(log, <<"start", Top.action>>)
    /\ UNCHANGED <<actions, need_run, idx, track_list, error, status, eval_vars, gen_vars, script_vars, query_vars>>

\* _run_single_action: eval_fn returned; track_list.append(action); return
CallbackReturn ==
    /\ status = "running" /\ stack # <<>> /\ Top.pc = "eval"
    /\ log' = Append(log, <<"end", Top.action>>)
    /\ track_list' = Append(track_list, Top.action)
    /\ stack' = Pop
    /\ UNCHANGED <<actions, need_run, idx, error, status, eval_vars, gen_vars, script_vars, query_vars>>

\* _run_single_action: eval_fn raised; the exception leaves the runner
CallbackRaise ==
    /\ status = "running" /\ stack # <<>> /\ Top.pc = "eval"
    /\ log' = Append(log, <<"raise", Top.action>>)
    /\ Raise("callback", Top.action, <<>>)
    /\ UNCHANGED <<actions, need_run, idx, track_list, eval_vars, gen_vars, script_vars, query_vars>>

RunSingleAction ==
    \/ SkipAlreadyRun
    \/ DepNotFound
    \/ CycleReference
    \/ RecordCall
    \/ RunDependency
    \/ CallbackStart
    \/ CallbackReturn
    \/ CallbackRaise

\* a `deps` list: up to MaxDeps names, each named once
DepLists ==
    {s \in SeqsUpTo(ActionNames, MaxDeps) :
         \A i, j \in DOMAIN s : i # j => s[i] # s[j]}

\* the registries: a dict from the registered names to their Action
Registries ==
    UNION {[reg -> [deps : DepLists]] :
               reg \in {r \in SUBSET ActionNames : AlwaysRegistered \subseteq r}}

\* no Query is folded or flattened while another part is checked
QueryIdle ==
    /\ self_it = <<>> /\ q_pc = "idle" /\ q_n = 0 /\ fold_type = <<>>
    /\ fold_lst = <<>> /\ flat_result = <<>> /\ yielded = <<>> /\ ops = 0
    /\ other_it = <<>> /\ collected = <<>>

\* no BuildScript object exists while a part is checked on its own
ScriptIdle ==
    /\ declared = <<>> /\ members = <<>> /\ tool = <<>> /\ registry = <<>>
    /\ s_pc = "idle" /\ s_i = 0 /\ exit_code = -1
    /\ opt_args = <<>> /\ options_table = <<>> /\ variables = <<>>
    /\ store = <<>>

\* no generator exists while the runner or the evaluator is checked
GenIdle ==
    /\ file_handler = <<>> /\ closed = FALSE /\ build_item = <<>>
    /\ default_item = <<>> /\ generated_rule = <<>> /\ gens = <<>>
    /\ g_log = <<>> /\ scope = "idle" /\ calls = 0
    /\ result = [kind |-> "none", val |-> <<>>]

\* the evaluator is not in use while the runner is checked
EvalIdle ==
    /\ e_vars = <<>> /\ old_expr = <<>> /\ expr = <<>> /\ max_step = 0
    /\ e_pc = "idle" /\ e_out = <<>> /\ e_refs = {} /\ e_cyc = FALSE

InitRun ==
    /\ EvalIdle /\ GenIdle /\ ScriptIdle /\ QueryIdle
    /\ actions \in Registries
    /\ need_run \in SeqsUpTo(ActionNames, MaxTool)
    /\ idx = 1
    /\ stack = <<>>
    /\ track_list = <<>>
    /\ log = <<>>
    /\ error = NoError
    /\ status = "running"

NextRun == RunActions \/ RunSingleAction

SpecRun == InitRun /\ [][NextRun]_vars

\* the runner is one thread that is never suspended for ever, and a
\* callback that has been entered returns or raises
SpecRunFair == SpecRun /\ WF_vars(NextRun)

(***************************************************************************)
(* eval_expr  (expr.py 128-149)                                            *)
(*                                                                         *)
(* A string is a sequence of one-character strings.  "a" and "b" stand for *)
(* the letters and "_", "1" for the digits, "/" for any other character.   *)
(***************************************************************************)
\* max_step = 16
MaxStep == 16

\* string.Template.idpattern: [_a-z][_a-z0-9]*
IdStart == {"a", "b"}

IdCont == IdStart \cup {"1"}

\* the sentinel eval_expr writes for an escaped `$$`
Sentinel == <<"@", "=", "@">>

RECURSIVE Replace(_, _, _)
\* str.replace(old, new): every non-overlapping occurrence, left to right
Replace(s, old, new) ==
    IF Len(s) < Len(old) THEN s
    ELSE IF SubSeq(s, 1, Len(old)) = old
         THEN new \o Replace(SubSeq(s, Len(old) + 1, Len(s)), old, new)
         ELSE <<s[1]>> \o Replace(Tail(s), old, new)

RECURSIVE NameEnd(_, _)
\* the last position of the run of identifier characters starting at j
\* (j - 1 when there is none)
NameEnd(s, j) ==
    IF j <= Len(s) /\ s[j] \in IdCont THEN NameEnd(s, j + 1) ELSE j - 1

\* string.Template.pattern matched at a `$` at position i:
\*   \$(?:(?P<escaped>\$)|(?P<named>id)|{(?P<braced>id)}|(?P<invalid>))
Token(s, i) ==
    IF i + 1 <= Len(s) /\ s[i + 1] = "$"
    THEN [kind |-> "escaped", name |-> <<>>, next |-> i + 2]
    ELSE IF i + 1 <= Len(s) /\ s[i + 1] \in IdStart
    THEN [kind |-> "named", name |-> SubSeq(s, i + 1, NameEnd(s, i + 1)),
          next |-> NameEnd(s, i + 1) + 1]
    ELSE IF /\ i + 2 <= Len(s) /\ s[i + 1] = "{" /\ s[i + 2] \in IdStart
            /\ NameEnd(s, i + 2) + 1 <= Len(s)
            /\ s[NameEnd(s, i + 2) + 1] = "}"
    THEN [kind |-> "braced", name |-> SubSeq(s, i + 2, NameEnd(s, i + 2)),
          next |-> NameEnd(s, i + 2) + 2]
    ELSE [kind |-> "invalid", name |-> <<>>, next |-> i + 1]

RECURSIVE Subst(_, _, _, _)
\* Template.substitute from position i on, acc being the text produced so
\* far: the new string, or the first KeyError / ValueError met
Subst(s, mapping, i, acc) ==
    IF i > Len(s) THEN [kind |-> "ok", val |-> acc]
    ELSE IF s[i] # "$" THEN Subst(s, mapping, i + 1, Append(acc, s[i]))
    ELSE LET t == Token(s, i)
         IN  CASE t.kind = "escaped" ->
                      Subst(s, mapping, t.next, Append(acc, "$"))
               [] t.kind \in {"named", "braced"} ->
                      IF t.name \in DOMAIN mapping
                      THEN Subst(s, mapping, t.next, acc \o mapping[t.name])
                      ELSE [kind |-> "KeyError", val |-> t.name]
               [] OTHER -> [kind |-> "ValueError", val |-> <<>>]

\* patt = Template(expr); patt.substitute(vars)
Substitute(s, mapping) == Subst(s, mapping, 1, <<>>)

RECURSIVE RefsFrom(_, _)
\* the names the `$name` and `${name}` tokens of s reference, from i on
RefsFrom(s, i) ==
    IF i > Len(s) THEN {}
    ELSE IF s[i] # "$" THEN RefsFrom(s, i + 1)
    ELSE LET t == Token(s, i)
         IN  IF t.kind \in {"named", "braced"}
             THEN {t.name} \cup RefsFrom(s, t.next)
             ELSE RefsFrom(s, t.next)

Refs(s) == RefsFrom(s, 1)

\* the variables the value of n references
VarRefs(n) == IF n \in DOMAIN e_vars THEN Refs(e_vars[n]) ELSE {}

RECURSIVE VarReach(_)
VarReach(S) ==
    LET T == S \cup UNION {VarRefs(n) : n \in S}
    IN  IF T = S THEN S ELSE VarReach(T)

\* the value of n references n back, directly or through other variables
SelfReferential(n) == n \in DOMAIN e_vars /\ n \in VarReach(VarRefs(n))

\* s references a variable whose value leads back to that variable
CycRef(s) == \E n \in Refs(s) : SelfReferential(n)

\* `expr.find('$') != -1`
HasDollar(s) == "$" \in Range(s)

\* the loop condition `expr.find('$') != -1 and max_step > 0`
LoopOnAnyStep == HasDollar(expr) /\ max_step >= 0

LoopCondShort == HasDollar(expr) /\ max_step > 1

LoopCond == HasDollar(expr) /\ max_step > 0

\* the passes performed so far
Rounds == MaxStep - max_step

\* expr = expr.replace('$$', '@=@')
Escape ==
    /\ e_pc = "escape"
    /\ expr' = Replace(expr, <<"$", "$">>, Sentinel)
    /\ e_cyc' = CycRef(expr')
    /\ e_pc' = "loop"
    /\ UNCHANGED <<e_vars, old_expr, max_step, e_out, e_refs, run_vars, gen_vars, script_vars, query_vars>>

\* one iteration of the while loop: expr = patt.substitute(vars); max_step -= 1
Pass ==
    /\ e_pc = "loop" /\ LoopCond
    /\ Substitute(expr, e_vars).kind = "ok"
    /\ expr' = Substitute(expr, e_vars).val
    /\ max_step' = max_step - 1
    /\ e_refs' = e_refs \cup Refs(expr)
    /\ e_cyc' = (e_cyc /\ CycRef(expr'))
    /\ UNCHANGED <<e_vars, old_expr, e_pc, e_out, run_vars, gen_vars, script_vars, query_vars>>

\* substitute raised KeyError, and the string as it stands is returned
PassKeyErrorIgnored ==
    /\ e_pc = "loop" /\ LoopCond
    /\ Substitute(expr, e_vars).kind = "KeyError"
    /\ e_out' = [kind |-> "return", name |-> <<>>,
                 val |-> Replace(expr, Sentinel, <<"$">>)]
    /\ e_refs' = e_refs \cup Refs(expr)
    /\ e_pc' = "returned"
    /\ UNCHANGED <<e_vars, old_expr, expr, max_step, e_cyc, run_vars, gen_vars, script_vars, query_vars>>

\* substitute raised KeyError: `raise ExprEvalException(variable ... not found)`
PassKeyError ==
    /\ e_pc = "loop" /\ LoopCond
    /\ Substitute(expr, e_vars).kind = "KeyError"
    /\ e_out' = [kind |-> "undefined", name |-> Substitute(expr, e_vars).val,
                 val |-> old_expr]
    /\ e_refs' = e_refs \cup Refs(expr)
    /\ e_pc' = "raised"
    /\ UNCHANGED <<e_vars, old_expr, expr, max_step, e_cyc, run_vars, gen_vars, script_vars, query_vars>>

\* substitute raised ValueError (an invalid placeholder): eval_expr does not
\* catch it
PassValueError ==
    /\ e_pc = "loop" /\ LoopCond
    /\ Substitute(expr, e_vars).kind = "ValueError"
    /\ e_out' = [kind |-> "invalid", name |-> <<>>, val |-> old_expr]
    /\ e_refs' = e_refs \cup Refs(expr)
    /\ e_pc' = "raised"
    /\ UNCHANGED <<e_vars, old_expr, expr, max_step, e_cyc, run_vars, gen_vars, script_vars, query_vars>>

\* the while loop ends
LoopExit ==
    /\ e_pc = "loop" /\ ~LoopCond
    /\ e_pc' = "check"
    /\ UNCHANGED <<e_vars, old_expr, expr, max_step, e_out, e_refs, e_cyc,
                   run_vars, gen_vars, script_vars, query_vars>>

\* `if max_step == 0: raise ExprEvalException(... max eval step)`
RaiseMaxStep ==
    /\ e_pc = "check" /\ max_step = 0
    /\ e_out' = [kind |-> "max_step", name |-> <<>>, val |-> old_expr]
    /\ e_pc' = "raised"
    /\ UNCHANGED <<e_vars, old_expr, expr, max_step, e_refs, e_cyc, run_vars,
                   gen_vars, script_vars, query_vars>>

\* expr = expr.replace('@=@', '$'); return expr
\* (expr keeps the string the loop left; e_out.val is the returned one)
Return ==
    /\ e_pc = "check" /\ max_step # 0
    /\ e_out' = [kind |-> "return", name |-> <<>>,
                 val |-> Replace(expr, Sentinel, <<"$">>)]
    /\ e_pc' = "returned"
    /\ UNCHANGED <<e_vars, old_expr, expr, max_step, e_refs, e_cyc, run_vars,
                   gen_vars, script_vars, query_vars>>

eval_expr ==
    \/ Escape
    \/ Pass
    \/ PassKeyError
    \/ PassValueError
    \/ LoopExit
    \/ RaiseMaxStep
    \/ Return

(***************************************************************************)
(* The inputs of eval_expr                                                 *)
(***************************************************************************)
\* the longest expression of the exhaustive inputs
MaxExprLen == 3

\* the longest chain of variables a -> aa -> aaa -> ...
MaxChain == 17

ExprChars == {"$", "a", "{", "}", "/"}

SmallValues ==
    {<<>>, <<"/">>, <<"$", "a">>, <<"$", "b">>, <<"$", "$">>, Sentinel}

\* every mapping over the names a and b
SmallVars ==
    UNION {[K -> SmallValues] : K \in SUBSET {<<"a">>, <<"b">>}}

\* the name a...a of k letters
AName(k) == [i \in 1..k |-> "a"]

RefTo(name) == <<"$">> \o name

\* a, aa, ..., a^n: each refers to the next one, the last has the value `last`
ChainVars(n, last) ==
    [name \in {AName(k) : k \in 1..n} |->
        IF Len(name) < n THEN RefTo(AName(Len(name) + 1)) ELSE last]

\* how a chain of n variables may end: in a literal, in a reference back to
\* its head or to its last variable, in a reference to an absent key
ChainEnds(n) ==
    {<<"/">>, RefTo(AName(1)), <<"$", "{">> \o AName(n) \o <<"}", "/">>,
     RefTo(<<"b">>)}

ChainExprs ==
    {<<"$", "a">>, <<"$", "{", "a", "}">>, <<"/", "$", "a", "/">>,
     <<"$", "$", "$", "a">>, <<"$", "a", "$", "b">>}

\* inputs with names of several characters, digits and the sentinel
SpecialInputs ==
    {[e |-> <<"$", "{", "a", "}", "a">>,
      v |-> (<<"a">> :> <<"$", "a">>) @@ (<<"a", "a">> :> <<"/">>)],
     [e |-> <<"$", "a", "1">>, v |-> (<<"a", "1">> :> <<"/">>)],
     [e |-> <<"$", "1">>, v |-> (<<"1">> :> <<"/">>)],
     [e |-> <<"@", "=", "@", "a">>, v |-> (<<"a">> :> <<"/">>)],
     [e |-> <<"$", "a">>, v |-> (<<"a">> :> <<"$", "$", "a">>)],
     [e |-> <<"$", "a">>, v |-> (<<"a">> :> <<"@", "=", "@", "b">>)],
     [e |-> <<"$", "/", "$", "b">>, v |-> (<<"a">> :> <<"/">>)],
     [e |-> <<"$", "a", "$", "/">>, v |-> (<<"a">> :> <<"$", "b">>)],
     [e |-> <<"@", "=", "$", "$">>, v |-> <<>>],
     [e |-> <<"$", "$", "$", "a">>, v |-> (<<"a">> :> <<"/">>)]}

EvalInputs ==
    {[e |-> e, v |-> v] : e \in SeqsUpTo(ExprChars, MaxExprLen), v \in SmallVars}
    \cup UNION {{[e |-> e, v |-> ChainVars(n, last)] :
                     e \in ChainExprs, last \in ChainEnds(n)} : n \in 1..MaxChain}
    \cup SpecialInputs

\* the action runner is not in use while the evaluator is checked
RunIdle ==
    /\ actions = <<>> /\ need_run = <<>> /\ idx = 0 /\ stack = <<>>
    /\ track_list = <<>> /\ log = <<>> /\ error = NoError /\ status = "idle"

InitEval ==
    /\ RunIdle /\ GenIdle /\ ScriptIdle /\ QueryIdle
    /\ \E in \in EvalInputs : e_vars = in.v /\ old_expr = in.e /\ expr = in.e
    /\ max_step = MaxStep
    /\ e_pc = "escape"
    /\ e_out = [kind |-> "none", name |-> <<>>, val |-> <<>>]
    /\ e_refs = {}
    /\ e_cyc = FALSE

NextEval == eval_expr

SpecEval == InitEval /\ [][NextEval]_vars

(***************************************************************************)
(* NinjaGenerator, Stage and Query (ninja.py)                              *)
(*                                                                         *)
(* A build script opens one NinjaGenerator in a `with` block and, inside   *)
(* it, builds Query pipelines over Stage objects, collects them and calls  *)
(* the generator itself.  A file or a tag is a sequence of characters; a   *)
(* line of the file is a tuple whose first component names its kind.       *)
(***************************************************************************)
\* the most Query objects and the most direct generator calls of one script
MaxGens == 3
MaxCalls == 1

\* the four lines NinjaGenerator.__init__ writes
Header == <<<<"header", "autogen">>, <<"header", "notice">>,
            <<"header", "generated_at">>, <<"header", "end_autogen">>>>

\* the part of the program state the pipeline reads and writes
State == [gens |-> gens, file_handler |-> file_handler,
          build_item |-> build_item, generated_rule |-> generated_rule,
          g_log |-> g_log]

Logged(S, ev) == [S EXCEPT !.g_log = Append(@, ev)]

\* the lines add_rule writes for one rule
RuleBlock(name, description, dep_file) ==
    <<<<"rule", name>>, <<"command", name>>>>
    \o (IF Len(description) > 0 THEN <<<<"description", name>>>> ELSE <<>>)
    \o (IF Len(dep_file) > 0 THEN <<<<"depfile", name>>>> ELSE <<>>)

\* NinjaGenerator.add_rule: written to the file at once
AddRule(S, name, description, dep_file) ==
    [Logged(S, <<"rule", name>>) EXCEPT
        !.file_handler = @ \o RuleBlock(name, description, dep_file)]

\* the statement add_build formats
BuildStatement(rule, out, inp, dyn_deps) ==
    IF Len(dyn_deps) > 0 THEN <<"build", out, rule, inp, dyn_deps>>
    ELSE <<"build", out, rule, inp>>

\* add_build as it would be if it wrote the statement to the file at once
AppendBuildToFile(S, stmt) == [S EXCEPT !.file_handler = Append(@, stmt)]

\* self.build_item.append(...)
AppendBuild(S, stmt) == [S EXCEPT !.build_item = Append(@, stmt)]

\* NinjaGenerator.add_build: kept in build_item until __exit__
AddBuild(S, rule, out, inp, dyn_deps) ==
    AppendBuild(Logged(S, <<"build", BuildStatement(rule, out, inp, dyn_deps)>>),
                BuildStatement(rule, out, inp, dyn_deps))

\* NinjaGenerator.add_defaults: a str is appended, a list is concatenated
AddDefaults(items, file) ==
    IF file.is_str THEN Append(items, file.val) ELSE items \o file.val

\* what __exit__ writes: the build items, the count, the default target
ExitLines ==
    build_item
    \o <<<<"count", Len(build_item)>>, <<"default_comment">>,
         <<"default", default_item>>>>

(***************************************************************************)
(* File names and type tags                                                *)
(***************************************************************************)
\* the last position of character c in s, 0 when it does not occur
LastIndexOf(s, c) ==
    IF \E i \in 1..Len(s) : s[i] = c
    THEN CHOOSE i \in 1..Len(s) : s[i] = c /\ \A j \in (i+1)..Len(s) : s[j] # c
    ELSE 0

\* os.path.splitext(file): <<root, ext>>; the extension starts at the last
\* dot of the last path component, leading dots of the component aside
SplitExt(file) ==
    LET sep == LastIndexOf(file, "/")
        dot == LastIndexOf(file, ".")
    IN  IF dot > sep /\ \E j \in (sep+1)..(dot-1) : file[j] # "."
        THEN <<SubSeq(file, 1, dot - 1), SubSeq(file, dot, Len(file))>>
        ELSE <<file, <<>>>>

\* str.lower() on the characters file names are made of
LowerChar(c) ==
    CASE c = "C" -> "c" [] c = "H" -> "h" [] c = "O" -> "o" [] OTHER -> c

\* the extension taken as it is written
LowerKept(s) == s

Lower(s) == [i \in 1..Len(s) |-> LowerChar(s[i])]

\* Query._extension_name: os.path.splitext(file)[1][1:].lower()
ExtensionName(file) ==
    LET ext == SplitExt(file)[2]
    IN  Lower(SubSeq(ext, 2, Len(ext)))

\* f'type_{ext_name}'
TypeName(ext_name) == <<"type_">> \o ext_name

AnyType == <<":any">>

Element(element, type_name) == [element |-> element, type_name |-> type_name]

(***************************************************************************)
(* Stage objects.  Stage is abstract; the script's stages are a compiler   *)
(* ("cc": a .c file to the .o file of the same root), a copier ("cp": any  *)
(* file to the file of the same name under o/), a linker ("ld": .o files   *)
(* to the file `app`, which has no extension) and a UnitStage.             *)
(***************************************************************************)
Stages == {"cc", "cp", "ld", "unit"}

\* Stage.input_type()
InputType(st) ==
    CASE st = "cc" -> {TypeName(<<"c">>)}
      [] st = "cp" -> {AnyType}
      [] st = "ld" -> {TypeName(<<"o">>)}
      [] st = "unit" -> {AnyType}

\* Stage.generate_rule(): a rule-backed stage calls add_rule once, under its
\* own name; UnitStage.generate_rule is `pass`
GenerateRule(S, st) ==
    CASE st = "cc" -> AddRule(S, st, <<"C", "C">>, <<"d">>)
      [] st = "cp" -> AddRule(S, st, <<>>, <<>>)
      [] st = "ld" -> AddRule(S, st, <<"L", "D">>, <<>>)
      [] st = "unit" -> S

\* the output file a rule-backed stage derives from its input
OutFile(st, input) ==
    CASE st = "cc" -> SplitExt(input[1])[1] \o <<".", "o">>
      [] st = "cp" -> <<"o", "/">> \o input[1]
      [] st = "ld" -> <<"a", "p", "p">>

\* generate_build with a UnitStage that only refuses an empty input
GenerateBuildUnitLax(S, st, input) ==
    IF st = "unit"
    THEN IF Len(input) = 0
         THEN [S |-> S, ok |-> FALSE, out |-> <<>>]
         ELSE [S |-> S, ok |-> TRUE, out |-> input[1]]
    ELSE [S |-> AddBuild(S, st, OutFile(st, input), input, <<>>),
          ok |-> TRUE, out |-> OutFile(st, input)]

\* generate_build that adds no build statement for an output file without
\* extension
GenerateBuildExtFirst(S, st, input) ==
    IF st = "unit"
    THEN IF Len(input) # 1
         THEN [S |-> S, ok |-> FALSE, out |-> <<>>]
         ELSE [S |-> S, ok |-> TRUE, out |-> input[1]]
    ELSE IF Len(ExtensionName(OutFile(st, input))) = 0
    THEN [S |-> S, ok |-> TRUE, out |-> OutFile(st, input)]
    ELSE [S |-> AddBuild(S, st, OutFile(st, input), input, <<>>),
          ok |-> TRUE, out |-> OutFile(st, input)]

\* Stage.generate_build(input): add_build and the output file, or an error
GenerateBuild(S, st, input) ==
    IF st = "unit"
    THEN IF Len(input) # 1
         THEN [S |-> S, ok |-> FALSE, out |-> <<>>]
         ELSE [S |-> S, ok |-> TRUE, out |-> input[1]]
    ELSE [S |-> AddBuild(S, st, OutFile(st, input), input, <<>>),
          ok |-> TRUE, out |-> OutFile(st, input)]

\* `if not self.generated_rule`, always true
NeedsRuleAlways(S, st) == TRUE

\* `if not self.generated_rule`
NeedsRule(S, st) == ~S.generated_rule[st]

\* Stage.apply(input)
StageApply(S, st, input) ==
    LET S0 == Logged(S, <<"invoke", st, input>>)
        S1 == IF NeedsRule(S0, st)
              THEN [GenerateRule(S0, st) EXCEPT !.generated_rule[st] = TRUE]
              ELSE S0
    IN  GenerateBuild(S1, st, input)

(***************************************************************************)
(* Query: a generator object per Query, pulled with next()                 *)
(***************************************************************************)
\* a generator object: the frame of from_glob's or of apply's inner_fn
\*   items  the files from_glob has still to yield, as Elements
\*   it     the generator of the Query apply was called on
\*   rule   the stages given to apply
\*   item   the Element of the outer loop; k the next stage of the inner loop
Generator(kind, items, it, rule) ==
    [kind |-> kind, done |-> FALSE, items |-> items, it |-> it,
     rule |-> rule, item |-> Element(<<>>, <<>>), k |-> Len(rule) + 1]

\* the generator returned or raised: it yields nothing any more
Finish(S, g) == [S EXCEPT !.gens[g].done = TRUE]

Outcome(S, kind, val) == [S |-> S, kind |-> kind, val |-> val]

\* `':any' not in inp_type and item.type_name not in inp_type`, never true
TypeMismatchNever(type_name, inp_type) == FALSE

\* `':any' not in inp_type and item.type_name not in inp_type`
TypeMismatch(type_name, inp_type) ==
    AnyType \notin inp_type /\ type_name \notin inp_type

\* apply's inner loop left after its first stage: the stages that follow
\* in `rule` are not applied to the item
ApplyRuleFirstOnly(S, g) ==
    LET gen == S.gens[g]
        st == gen.rule[gen.k]
        item == gen.item
        S0 == Logged(S, <<"check", g, st, item>>)
    IN  IF TypeMismatch(item.type_name, InputType(st))
        THEN Outcome(Finish(Logged(S0, <<"typeerror", g, st, item>>), g),
                     "raise", "QueryTypeError")
        ELSE LET a == StageApply(S0, st, item.element)
                 ext_name == ExtensionName(a.out)
                 out == Element(<<a.out>>, TypeName(ext_name))
             IN  IF ~a.ok
                 THEN Outcome(Finish(a.S, g), "raise", "QueryTypeError")
                 ELSE IF Len(ext_name) = 0
                 THEN Outcome(Finish(Logged(a.S, <<"noext", g, st, a.out>>), g),
                              "raise", "QueryTypeError")
                 ELSE Outcome([Logged(a.S, <<"yield", g, st, out>>)
                                  EXCEPT !.gens[g].k = Len(gen.rule) + 1],
                              "yield", out)

\* the body of apply's inner loop for stage gens[g].rule[gens[g].k]
ApplyRule(S, g) ==
    LET gen == S.gens[g]
        st == gen.rule[gen.k]
        item == gen.item
        S0 == Logged(S, <<"check", g, st, item>>)
    IN  IF TypeMismatch(item.type_name, InputType(st))
        THEN Outcome(Finish(Logged(S0, <<"typeerror", g, st, item>>), g),
                     "raise", "QueryTypeError")
        ELSE LET a == StageApply(S0, st, item.element)
                 ext_name == ExtensionName(a.out)
                 out == Element(<<a.out>>, TypeName(ext_name))
             IN  IF ~a.ok
                 THEN Outcome(Finish(a.S, g), "raise", "QueryTypeError")
                 ELSE IF Len(ext_name) = 0
                 THEN Outcome(Finish(Logged(a.S, <<"noext", g, st, a.out>>), g),
                              "raise", "QueryTypeError")
                 ELSE Outcome([Logged(a.S, <<"yield", g, st, out>>)
                                  EXCEPT !.gens[g].k = @ + 1],
                              "yield", out)

RECURSIVE NextElement(_, _)
\* next(gens[g]): the state after it, and the Element yielded ("yield"),
\* StopIteration ("stop") or the exception raised ("raise")
NextElement(S, g) ==
    LET gen == S.gens[g]
    IN  IF gen.done THEN Outcome(S, "stop", <<>>)
        ELSE IF gen.kind = "from_glob"
        THEN IF gen.items = <<>>
             THEN Outcome(Finish(S, g), "stop", <<>>)
             ELSE Outcome([S EXCEPT !.gens[g].items = Tail(@)],
                          "yield", Head(gen.items))
        ELSE IF gen.k <= Len(gen.rule)
        THEN ApplyRule(S, g)
        ELSE LET r == NextElement(S, gen.it)
             IN  IF r.kind = "yield"
                 THEN IF Len(gen.rule) = 0
                      THEN NextElement(r.S, g)
                      ELSE ApplyRule([r.S EXCEPT !.gens[g].item = r.val,
                                                 !.gens[g].k = 1], g)
                 ELSE Outcome(Finish(r.S, g), r.kind, r.val)

RECURSIVE Collect(_, _, _)
\* collect_files: lst holds the files appended so far
Collect(S, g, lst) ==
    LET r == NextElement(S, g)
    IN  IF r.kind = "yield" THEN Collect(r.S, g, lst \o r.val.element)
        ELSE IF r.kind = "stop" THEN Outcome(r.S, "return", lst)
        ELSE r

(***************************************************************************)
(* The build script: what it does inside the `with` block, and the end of  *)
(* the block                                                               *)
(***************************************************************************)
\* the script is inside the block and no exception is on its way out of it
\* (the script catches nothing: what collect_files raises leaves the block)
Running == scope = "open" /\ result.kind # "raise"

\* the state the pipeline left becomes the program's state
Commit(S) ==
    /\ gens' = S.gens
    /\ file_handler' = S.file_handler
    /\ build_item' = S.build_item
    /\ generated_rule' = S.generated_rule
    /\ g_log' = S.g_log

File(name, ext) == <<name, ".", ext>>

\* what glob.iglob finds for the script's filters
GlobResults ==
    { <<File("a", "c"), File("B", "C")>>,
      <<File("x", "h"), File("a", "c")>> }

\* the stage lists the script gives to apply
StageLists ==
    { <<"cc">>, <<"cp">>, <<"unit", "ld">> }

\* the targets the script gives to add_defaults
DefaultArgs ==
    { [is_str |-> TRUE, val |-> <<"a", "p", "p">>],
      [is_str |-> FALSE, val |-> <<File("a", "o"), File("b", "o")>>] }

\* Query.from_glob(glob_filter): nothing is read before the first next()
FromGlob ==
    /\ Running /\ Len(gens) < MaxGens
    /\ \E files \in GlobResults :
         gens' = Append(gens, Generator("from_glob",
                     [i \in 1..Len(files) |->
                        Element(<<files[i]>>, TypeName(ExtensionName(files[i])))],
                     0, <<>>))
    /\ UNCHANGED <<file_handler, closed, build_item, default_item,
                   generated_rule, g_log, scope, calls, result,
                   run_vars, eval_vars, script_vars, query_vars>>

\* Query.apply(*rule): a new generator over the generator of Query q
QueryApply ==
    /\ Running /\ Len(gens) < MaxGens
    /\ \E q \in 1..Len(gens), rule \in StageLists :
         gens' = Append(gens, Generator("apply", <<>>, q, rule))
    /\ UNCHANGED <<file_handler, closed, build_item, default_item,
                   generated_rule, g_log, scope, calls, result,
                   run_vars, eval_vars, script_vars, query_vars>>

\* Query.collect_files() on Query q
CollectFiles ==
    /\ Running
    /\ \E q \in 1..Len(gens) :
         /\ ~gens[q].done
         /\ Commit(Collect(State, q, <<>>).S)
         /\ result' = [kind |-> Collect(State, q, <<>>).kind,
                       val |-> Collect(State, q, <<>>).val]
    /\ UNCHANGED <<closed, default_item, scope, calls, run_vars, eval_vars, script_vars, query_vars>>

\* the script calls add_rule itself
ScriptAddRule ==
    /\ Running /\ calls < MaxCalls
    /\ Commit(AddRule(State, "custom", <<>>, <<>>))
    /\ calls' = calls + 1
    /\ UNCHANGED <<closed, default_item, scope, result, run_vars, eval_vars, script_vars, query_vars>>

\* the script calls add_build itself
ScriptAddBuild ==
    /\ Running /\ calls < MaxCalls
    /\ Commit(AddBuild(State, "custom", File("o", "o"), <<File("a", "c")>>,
                       <<<<"g", "e", "n">>>>))
    /\ calls' = calls + 1
    /\ UNCHANGED <<closed, default_item, scope, result, run_vars, eval_vars, script_vars, query_vars>>

\* the script calls add_defaults
ScriptAddDefaults ==
    /\ Running /\ calls < MaxCalls
    /\ \E file \in DefaultArgs : default_item' = AddDefaults(default_item, file)
    /\ calls' = calls + 1
    /\ UNCHANGED <<file_handler, closed, build_item, generated_rule, gens,
                   g_log, scope, result, run_vars, eval_vars, script_vars, query_vars>>

\* what __exit__ writes when the block ends normally, nothing when an
\* exception ends it
ExitWritesUnlessError(exc) == IF exc THEN <<>> ELSE ExitLines

\* what __exit__ writes; it does not look at the exception it is given
ExitWrites(exc) == ExitLines

\* the `with` block ends, normally or because an exception leaves it:
\* NinjaGenerator.__exit__
Exit ==
    /\ scope = "open"
    /\ LET exc == result.kind = "raise"
       IN  /\ file_handler' = file_handler \o ExitWrites(exc)
           /\ scope' = IF exc THEN "failed" ELSE "exited"
    /\ closed' = TRUE
    /\ UNCHANGED <<build_item, default_item, generated_rule, gens, g_log,
                   calls, result, run_vars, eval_vars, script_vars, query_vars>>

\* __exit__ on a generator that is closed already: the first write raises
\* ValueError (I/O operation on closed file)
ExitAgain ==
    /\ scope = "exited" /\ closed
    /\ result' = [kind |-> "raise", val |-> "ValueError"]
    /\ UNCHANGED <<file_handler, closed, build_item, default_item,
                   generated_rule, gens, g_log, scope, calls,
                   run_vars, eval_vars, script_vars, query_vars>>

InitGen ==
    /\ RunIdle /\ EvalIdle /\ ScriptIdle /\ QueryIdle
    /\ file_handler = Header /\ closed = FALSE
    /\ build_item = <<>> /\ default_item = <<>>
    /\ generated_rule = [st \in Stages |-> FALSE]
    /\ gens = <<>> /\ g_log = <<>>
    /\ scope = "open" /\ calls = 0
    /\ result = [kind |-> "none", val |-> <<>>]

NextGen ==
    \/ FromGlob
    \/ QueryApply
    \/ CollectFiles
    \/ ScriptAddRule
    \/ ScriptAddBuild
    \/ ScriptAddDefaults
    \/ Exit
    \/ ExitAgain

SpecGen == InitGen /\ [][NextGen]_vars

(***************************************************************************)
(* BuildScript.__init__ and BuildScript.run  (main.py 209-370)             *)
(*                                                                         *)
(* The script module declares Action objects (the @action functions); a    *)
(* declaration is the attribute name it is bound to (key), the Action's    *)
(* name, its default flag and its deps.                                    *)
(***************************************************************************)
\* the most Action objects a script module declares
MaxDecls == 3

\* the attribute names a script uses, in the order of Python's string
\* comparison, which is the order inspect.getmembers sorts by
Alphabet == <<"A", "A2", "B", "build", "ninja">>

Decl(key, name, default, deps) ==
    [key |-> key, name |-> name, default |-> default, deps |-> deps]

\* the declarations a script is made of: A2 is a second Action named "A",
\* `build` has the name of a built-in action
Decls ==
    {Decl("A", "A", d, <<>>) : d \in BOOLEAN}
    \cup {Decl("B", "B", d, <<"A">>) : d \in BOOLEAN}
    \cup {Decl("A2", "A", FALSE, <<"B">>),
          Decl("build", "build", FALSE, <<>>),
          Decl("ninja", "ninja", FALSE, <<>>)}

\* the script modules: up to MaxDecls declarations, an attribute name being
\* bound once
Scripts ==
    {s \in SeqsUpTo(Decls, MaxDecls) :
         \A i, j \in DOMAIN s : i # j => s[i].key # s[j].key}

\* the scripts the option and variable inputs are combined with
PlainScripts ==
    {<<Decl("ninja", "ninja", FALSE, <<>>)>>,
     <<Decl("A", "A", TRUE, <<>>), Decl("ninja", "ninja", FALSE, <<>>)>>}

\* the command lines: `-t` absent, one action, two actions
Tools == {<<>>, <<"B">>, <<"build", "A">>}

\* inspect.getmembers(self_module): the members sorted by attribute name
GetMembers(script) ==
    LET keys == SelectSeq(Alphabet,
                          LAMBDA k : \E i \in DOMAIN script : script[i].key = k)
    IN  [n \in DOMAIN keys |->
            script[CHOOSE i \in DOMAIN script : script[i].key = keys[n]]]

\* setup_global_variable: the built-in keys (root and option_hash stand for
\* the eleven of them) and one key derived from the environment
InitialStore ==
    ("root" :> "base") @@ ("option_hash" :> "unknown") @@ ("env_path" :> "/bin")

\* what build_script_variables() returns, self.variables from __init__ on:
\* <<name, value>> pairs in dict order
UserVariables ==
    {<<>>,
     <<<<"my", "1">>>>,
     <<<<"my", "1">>, <<"root", "x">>>>,
     <<<<"env_path", "x">>, <<"root", "x">>>>,
     <<<<"option_hash", "x">>>>}

\* a UserOption: its default value and its filter_fn, the set it accepts or
\* default_filter_fn, which accepts everything
UserOption(value, any, accepts) ==
    [value |-> value, any |-> any, accepts |-> accepts]

\* self.options: the built-in `release` and the script's `mode` and `jobs`
Options ==
    ("release" :> UserOption("0", FALSE, {"1", "0"}))
    @@ ("mode" :> UserOption("debug", FALSE, {"debug", "fast"}))
    @@ ("jobs" :> UserOption("2", TRUE, {}))

\* the `-o` strings of the command line, a string being the sequence of its
\* `=` signs and of the text between them
OptArgs ==
    {<<>>,
     <<<<"mode">>>>,
     <<<<"release">>>>,
     <<<<"mode", "=", "fast">>>>,
     <<<<"mode", "=", "bad">>>>,
     <<<<"nope", "=", "1">>>>,
     <<<<"jobs", "=", "4">>, <<"jobs">>>>,
     <<<<"jobs", "=">>, <<"release", "=", "1">>>>,
     <<<<"mode", "=", "fast", "=", "x">>>>,
     <<<<"release", "=", "1">>, <<"mode", "=", "bad">>>>}

\* the actions __init__ adds itself: build, clean, compdb
Builtins == <<"build", "clean", "compdb">>

\* raise BuildScriptException in __init__: logged, then quit(1)
InitRaise(kind, name) ==
    /\ error' = [kind |-> kind, name |-> name, hint |-> <<>>]
    /\ s_pc' = "quit"
    /\ exit_code' = 1

\* __init__: self.actions.update({...}) for build, clean and compdb
AddDefaultActions ==
    /\ s_pc = "init"
    /\ actions' = [n \in Range(Builtins) |-> [deps |-> <<"ninja">>]]
    /\ registry' = [i \in DOMAIN Builtins |->
                       [name |-> Builtins[i], default |-> FALSE]]
    /\ s_pc' = "add_actions"
    /\ s_i' = 1
    /\ store' = InitialStore
    /\ UNCHANGED <<need_run, idx, stack, track_list, log, error, status,
                   declared, members, tool, exit_code, opt_args,
                   options_table, variables, eval_vars, gen_vars, query_vars>>

\* `if obj.name in self.actions`, never true
ExistedNever(name) == FALSE

\* `if obj.name in self.actions`
Existed(name) == name \in DOMAIN actions

\* _add_actions: `raise BuildScriptException('Action ... was existed')`
AddActionsExisted ==
    /\ s_pc = "add_actions" /\ s_i <= Len(members)
    /\ Existed(members[s_i].name)
    /\ InitRaise("existed", members[s_i].name)
    /\ UNCHANGED <<actions, need_run, idx, stack, track_list, log, status,
                   declared, members, tool, registry, s_i, opt_vars, eval_vars, gen_vars, query_vars>>

\* _add_actions: self.actions.update({obj.name: obj})
AddActionsUpdate ==
    /\ s_pc = "add_actions" /\ s_i <= Len(members)
    /\ ~Existed(members[s_i].name)
    /\ actions' = (members[s_i].name :> [deps |-> members[s_i].deps]) @@ actions
    /\ registry' =
           IF members[s_i].name \in DOMAIN actions
           THEN [k \in DOMAIN registry |->
                    IF registry[k].name = members[s_i].name
                    THEN [registry[k] EXCEPT !.default = members[s_i].default]
                    ELSE registry[k]]
           ELSE Append(registry, [name |-> members[s_i].name,
                                  default |-> members[s_i].default])
    /\ s_i' = s_i + 1
    /\ UNCHANGED <<need_run, idx, stack, track_list, log, error, status,
                   declared, members, tool, s_pc, exit_code, opt_vars, eval_vars, gen_vars, query_vars>>

\* __init__: `if 'ninja' not in self.actions: raise`
MissingNinja ==
    /\ s_pc = "add_actions" /\ s_i > Len(members)
    /\ "ninja" \notin DOMAIN actions
    /\ InitRaise("missing_ninja", "ninja")
    /\ UNCHANGED <<actions, need_run, idx, stack, track_list, log, status,
                   declared, members, tool, registry, s_i, opt_vars, eval_vars, gen_vars, query_vars>>

\* __init__ returns; the script calls run()
InitReturn ==
    /\ s_pc = "add_actions" /\ s_i > Len(members)
    /\ "ninja" \in DOMAIN actions
    /\ s_pc' = "need_run"
    /\ UNCHANGED <<run_vars, declared, members, tool, registry, s_i,
                   exit_code, opt_vars, eval_vars, gen_vars, query_vars>>

\* the keys of self.actions whose Action has default set, in dict order
DefaultActions ==
    LET d == SelectSeq(registry, LAMBDA r : r.default)
    IN  [k \in DOMAIN d |-> d[k].name]

\* need_run falling back to the built-in `build` when no action is default
NeedRunBuild ==
    IF Len(tool) # 0 THEN tool
    ELSE IF Len(DefaultActions) # 0 THEN DefaultActions
    ELSE <<"build">>

\* _run_build_script: need_run = self.args.tool.copy(), the default actions
\* when it is empty
NeedRun == IF Len(tool) = 0 THEN DefaultActions ELSE tool

\* _run_build_script: need_run is empty: warn, return; run() ends in quit(0)
NoActionRun ==
    /\ s_pc = "need_run"
    /\ Len(NeedRun) = 0
    /\ s_pc' = "quit"
    /\ exit_code' = 0
    /\ UNCHANGED <<run_vars, declared, members, tool, registry, s_i,
                   opt_vars, eval_vars, gen_vars, query_vars>>

\* var_expr.split('=')
RECURSIVE Split(_)
Split(var_expr) ==
    IF Len(var_expr) = 0 THEN <<"">>
    ELSE LET head == Split(SubSeq(var_expr, 1, Len(var_expr) - 1))
             last == var_expr[Len(var_expr)]
         IN  IF last = "=" THEN Append(head, "")
             ELSE [head EXCEPT ![Len(head)] = last]

\* `filter_res = var_defs.filter_fn(var_value)`, the value never looked at
FilterFnTrue(var_defs, var_value) == TRUE

\* `filter_res = var_defs.filter_fn(var_value)`
FilterFn(var_defs, var_value) == var_defs.any \/ var_value \in var_defs.accepts

\* `var_name not in var_table`
Undefined(var_table, var_name) == var_name \notin DOMAIN var_table

\* _parse_options from its i-th argument on: the dict it returns or the
\* BuildScriptException it raises
RECURSIVE ParseOptions(_, _, _, _)
ParseOptions(var_table, args, i, parsed) ==
    IF i > Len(args) THEN [kind |-> "return", result |-> parsed]
    ELSE LET var_cont == Split(args[i])
             var_name == var_cont[1]
             var_value == IF Len(var_cont) = 1 THEN "1" ELSE var_cont[2]
         IN  IF Len(var_cont) > 2
             THEN [kind |-> "cannot_parse", name |-> "", hint |-> args[i]]
             ELSE IF Undefined(var_table, var_name)
             THEN [kind |-> "undefined_option", name |-> var_name,
                   hint |-> <<>>]
             ELSE IF ~FilterFn(var_table[var_name], var_value)
             THEN [kind |-> "invaild", name |-> var_name,
                   hint |-> <<var_value>>]
             ELSE ParseOptions(var_table, args, i + 1,
                               (var_name :> var_value) @@ parsed)

\* _run_build_script: _parse_options raises; run() logs it and quits with 1
ParseOptionsRaise ==
    /\ s_pc = "need_run"
    /\ Len(NeedRun) # 0
    /\ ParseOptions(Options, opt_args, 1, <<>>).kind # "return"
    /\ error' = ParseOptions(Options, opt_args, 1, <<>>)
    /\ s_pc' = "quit"
    /\ exit_code' = 1
    /\ UNCHANGED <<actions, need_run, idx, stack, track_list, log, status,
                   reg_vars, opt_vars, eval_vars, gen_vars, query_vars>>

\* _run_build_script: options_table is the declared defaults updated with
\* options_val
OptionsTable ==
    /\ s_pc = "need_run"
    /\ Len(NeedRun) # 0
    /\ ParseOptions(Options, opt_args, 1, <<>>).kind = "return"
    /\ options_table' =
           ParseOptions(Options, opt_args, 1, <<>>).result
           @@ [opt_name \in DOMAIN Options |-> Options[opt_name].value]
    /\ s_pc' = "variables"
    /\ UNCHANGED <<run_vars, reg_vars, exit_code, opt_args, variables, store,
                   eval_vars, gen_vars, query_vars>>

\* `if var_name in expr.get_global_variables()`, never true
RedefinedNever(var_name) == FALSE

\* `if var_name in expr.get_global_variables()`
Redefined(var_name) == var_name \in DOMAIN store

\* _run_build_script: `raise BuildScriptException('Variable ... was
\* redefined')` for the first such variable; run() logs it and quits with 1
VariableRedefined ==
    /\ s_pc = "variables"
    /\ \E i \in DOMAIN variables :
           /\ Redefined(variables[i][1])
           /\ \A j \in 1..(i - 1) : ~Redefined(variables[j][1])
           /\ error' = [kind |-> "redefined", name |-> variables[i][1],
                        hint |-> <<>>]
    /\ s_pc' = "quit"
    /\ exit_code' = 1
    /\ UNCHANGED <<actions, need_run, idx, stack, track_list, log, status,
                   reg_vars, opt_vars, eval_vars, gen_vars, query_vars>>

\* a dict built from <<name, value>> pairs, a later pair replacing an earlier
DictOf(pairs) ==
    [k \in {pairs[i][1] : i \in DOMAIN pairs} |->
        pairs[CHOOSE i \in DOMAIN pairs :
                  /\ pairs[i][1] = k
                  /\ \A j \in DOMAIN pairs : pairs[j][1] = k => j <= i][2]]

\* _run_build_script: expr.update_global_variables(self.variables)
UpdateGlobalVariables ==
    /\ s_pc = "variables"
    /\ \A i \in DOMAIN variables : ~Redefined(variables[i][1])
    /\ store' = DictOf(variables) @@ store
    /\ s_pc' = "option_hash"
    /\ UNCHANGED <<run_vars, reg_vars, exit_code, opt_args, options_table,
                   variables, eval_vars, gen_vars, query_vars>>

\* _dict_hash: the digest of the table's `k=v,` string, a value the table
\* determines
DictHash(dict) == [shake_128 |-> dict]

\* _run_build_script: the option_hash key is updated and
\* self._run_actions(need_run, options_table) is entered
EnterRunActions ==
    /\ s_pc = "option_hash"
    /\ store' = ("option_hash" :> DictHash(options_table)) @@ store
    /\ need_run' = NeedRun
    /\ idx' = 1
    /\ status' = "running"
    /\ s_pc' = "run_actions"
    /\ UNCHANGED <<actions, stack, track_list, log, error, reg_vars,
                   exit_code, opt_args, options_table, variables,
                   eval_vars, gen_vars, query_vars>>

\* run(): _run_build_script returned, quit(0); or an exception left it:
\* quit(1) for the exceptions run() catches, the interpreter's exit status 1
\* for any other
Quit ==
    /\ s_pc = "run_actions"
    /\ status \in {"done", "failed"}
    /\ exit_code' = IF status = "failed" THEN 1 ELSE 0
    /\ s_pc' = "quit"
    /\ UNCHANGED <<run_vars, declared, members, tool, registry, s_i,
                   opt_vars, eval_vars, gen_vars, query_vars>>

InitScript ==
    /\ EvalIdle /\ GenIdle /\ QueryIdle
    /\ declared \in Scripts
    /\ members = GetMembers(declared)
    /\ tool \in Tools
    /\ registry = <<>> /\ actions = <<>>
    /\ need_run = <<>> /\ idx = 0 /\ stack = <<>> /\ track_list = <<>>
    /\ log = <<>> /\ error = NoError /\ status = "idle"
    /\ s_pc = "init" /\ s_i = 0 /\ exit_code = -1
    /\ opt_args \in OptArgs
    /\ variables \in UserVariables
    /\ (opt_args # <<>> \/ variables # <<>>) => declared \in PlainScripts
    /\ options_table = <<>>
    /\ store = <<>>

NextScript ==
    \/ AddDefaultActions
    \/ AddActionsExisted
    \/ AddActionsUpdate
    \/ MissingNinja
    \/ InitReturn
    \/ NoActionRun
    \/ ParseOptionsRaise
    \/ OptionsTable
    \/ VariableRedefined
    \/ UpdateGlobalVariables
    \/ EnterRunActions
    \/ RunActions
    \/ RunSingleAction
    \/ Quit

SpecScript == InitScript /\ [][NextScript]_vars

(***************************************************************************)
(* Query.fold, Query.flat and Query.concat  (ninja.py 303-372)             *)
(*                                                                         *)
(* A Query wraps a generator of Elements.  self_it is the sequence that    *)
(* generator yields; fold and flat take it one Element at a time.          *)
(***************************************************************************)
\* the most files a glob finds
MaxItems == 3

\* the most fold / flat calls a script chains
MaxOps == 2

UndefinedType == <<":undefined">>

\* the files the globs of the script find
QueryFiles == {File("a", "c"), File("b", "h"), File("d", "c")}

\* from_glob: one Element per file, `Element([file], f'type_{ext_name}')`
GlobElements(files) ==
    [i \in DOMAIN files |->
        Element(<<files[i]>>, TypeName(ExtensionName(files[i])))]

\* the queries a fold or flat result is concatenated with
Others ==
    {<<File("a", "c")>>, <<File("b", "h")>>, <<File("d", "c"), File("a", "c")>>}

\* the Element the `for item in self.it` loop takes next
Item == self_it[q_n + 1]

\* fold() is called on the Query and its generator is run
Fold ==
    /\ q_pc = "query" /\ ops < MaxOps
    /\ q_pc' = "fold"
    /\ fold_lst' = <<>>
    /\ fold_type' = UndefinedType
    /\ q_n' = 0
    /\ yielded' = <<>>
    /\ ops' = ops + 1
    /\ UNCHANGED <<self_it, flat_result, run_vars, eval_vars, gen_vars,
                   script_vars, other_it, collected>>

\* fold: `elif inp_type != item.type_name`
FoldMismatch(item) ==
    fold_type # UndefinedType /\ fold_type # item.type_name

\* fold: one turn of the loop: inp_type is set if it is ':undefined', the
\* item's paths are appended to lst
FoldItem ==
    /\ q_pc = "fold" /\ q_n < Len(self_it)
    /\ ~FoldMismatch(Item)
    /\ fold_type' = IF fold_type = UndefinedType THEN Item.type_name
                   ELSE fold_type
    /\ fold_lst' = fold_lst \o Item.element
    /\ q_n' = q_n + 1
    /\ UNCHANGED <<self_it, q_pc, flat_result, yielded, ops, run_vars,
                   eval_vars, gen_vars, script_vars, other_it, collected>>

\* fold: `raise QueryTypeError('fold type error ...')`
FoldRaise ==
    /\ q_pc = "fold" /\ q_n < Len(self_it)
    /\ FoldMismatch(Item)
    /\ q_pc' = "fold_raise"
    /\ UNCHANGED <<self_it, q_n, fold_type, fold_lst, flat_result, yielded, ops,
                   run_vars, eval_vars, gen_vars, script_vars, other_it, collected>>

\* fold that yields nothing when its input held no Element
FoldYieldSome ==
    /\ q_pc = "fold" /\ q_n = Len(self_it)
    /\ yielded' = IF Len(self_it) = 0 THEN <<>>
                  ELSE <<Element(fold_lst, fold_type)>>
    /\ q_pc' = "fold_end"
    /\ UNCHANGED <<self_it, q_n, fold_type, fold_lst, flat_result, ops, run_vars,
                   eval_vars, gen_vars, script_vars, other_it, collected>>

\* fold: `yield Element(lst, f'{inp_type}')`, and the generator ends
FoldYield ==
    /\ q_pc = "fold" /\ q_n = Len(self_it)
    /\ yielded' = <<Element(fold_lst, fold_type)>>
    /\ q_pc' = "fold_end"
    /\ UNCHANGED <<self_it, q_n, fold_type, fold_lst, flat_result, ops, run_vars,
                   eval_vars, gen_vars, script_vars, other_it, collected>>

\* flat() is called on the Query and its generator is run
Flat ==
    /\ q_pc = "query" /\ ops < MaxOps
    /\ q_pc' = "flat"
    /\ flat_result' = <<>>
    /\ q_n' = 0
    /\ yielded' = <<>>
    /\ ops' = ops + 1
    /\ UNCHANGED <<self_it, fold_type, fold_lst, run_vars, eval_vars, gen_vars,
                   script_vars, other_it, collected>>

\* flat: `if inp_type not in result` is never false
InResultNever(typ) == FALSE

\* flat: `inp_type in result`
InResult(typ) == \E k \in DOMAIN flat_result : flat_result[k].typ = typ

\* flat: one turn of the loop: the item's paths are appended to the list of
\* its type, a new last key of the dict if it had none
FlatItem ==
    /\ q_pc = "flat" /\ q_n < Len(self_it)
    /\ flat_result' =
           IF InResult(Item.type_name)
           THEN [k \in DOMAIN flat_result |->
                    IF flat_result[k].typ = Item.type_name
                    THEN [flat_result[k] EXCEPT !.items = @ \o Item.element]
                    ELSE flat_result[k]]
           ELSE Append(flat_result,
                       [typ |-> Item.type_name, items |-> Item.element])
    /\ q_n' = q_n + 1
    /\ UNCHANGED <<self_it, q_pc, fold_type, fold_lst, yielded, ops, run_vars,
                   eval_vars, gen_vars, script_vars, other_it, collected>>

\* flat: `for typ, result_item in result.items(): yield Element(...)`, and
\* the generator ends
FlatYield ==
    /\ q_pc = "flat" /\ q_n = Len(self_it)
    /\ yielded' = [k \in DOMAIN flat_result |->
                      Element(flat_result[k].items, flat_result[k].typ)]
    /\ q_pc' = "flat_end"
    /\ UNCHANGED <<self_it, q_n, fold_type, fold_lst, flat_result, ops, run_vars,
                   eval_vars, gen_vars, script_vars, other_it, collected>>

\* the Query that fold, flat or concat returned is the self of the next call
Chain ==
    /\ q_pc \in {"fold_end", "flat_end", "concat_end"} /\ ops < MaxOps
    /\ self_it' = yielded
    /\ q_pc' = "query"
    /\ UNCHANGED <<q_n, fold_type, fold_lst, flat_result, yielded, ops,
                   other_it, collected, run_vars, eval_vars, gen_vars,
                   script_vars>>

\* concat(other) is called on the Query, other a from_glob Query, and its
\* generator is run
Concat ==
    /\ q_pc = "query"
    /\ \E other \in Others :
           /\ Len(self_it) + Len(other) <= MaxItems + 1
           /\ other_it' = GlobElements(other)
    /\ q_pc' = "concat"
    /\ q_n' = 0
    /\ yielded' = <<>>
    /\ UNCHANGED <<self_it, fold_type, fold_lst, flat_result, ops, collected,
                   run_vars, eval_vars, gen_vars, script_vars>>

\* concat: the loops taken in the wrong order, other's before self's
ConcatNextOtherFirst(n) ==
    IF n < Len(other_it) THEN other_it[n + 1]
    ELSE self_it[n + 1 - Len(other_it)]

\* concat: the Element yielded after n others: `for it in self.it: yield it`
\* and then `for it in other.it: yield it`
ConcatNext(n) ==
    IF n < Len(self_it) THEN self_it[n + 1]
    ELSE other_it[n + 1 - Len(self_it)]

\* concat: one `yield it`
ConcatItem ==
    /\ q_pc = "concat" /\ q_n < Len(self_it) + Len(other_it)
    /\ yielded' = Append(yielded, ConcatNext(q_n))
    /\ q_n' = q_n + 1
    /\ UNCHANGED <<self_it, q_pc, fold_type, fold_lst, flat_result, ops,
                   other_it, collected, run_vars, eval_vars, gen_vars,
                   script_vars>>

\* concat: both loops are over, the generator ends
ConcatEnd ==
    /\ q_pc = "concat" /\ q_n = Len(self_it) + Len(other_it)
    /\ q_pc' = "concat_end"
    /\ UNCHANGED <<self_it, q_n, fold_type, fold_lst, flat_result, yielded,
                   ops, other_it, collected, run_vars, eval_vars, gen_vars,
                   script_vars>>

\* collect_files: `for val in self.it: for item in val.element:
\* lst.append(item)`
RECURSIVE CollectFilesOf(_)
CollectFilesOf(els) ==
    IF Len(els) = 0 THEN <<>>
    ELSE els[1].element \o CollectFilesOf(Tail(els))

\* collect_files() is called on the Query that fold, flat or concat returned
QueryCollect ==
    /\ q_pc \in {"fold_end", "flat_end", "concat_end"}
    /\ collected' = [of |-> q_pc, lst |-> CollectFilesOf(yielded)]
    /\ q_pc' = "collected"
    /\ UNCHANGED <<self_it, q_n, fold_type, fold_lst, flat_result, yielded,
                   ops, other_it, run_vars, eval_vars, gen_vars, script_vars>>

InitQuery ==
    /\ RunIdle /\ EvalIdle /\ GenIdle /\ ScriptIdle
    /\ \E files \in SeqsUpTo(QueryFiles, MaxItems) :
           self_it = GlobElements(files)
    /\ q_pc = "query" /\ q_n = 0 /\ fold_type = <<>> /\ fold_lst = <<>>
    /\ flat_result = <<>> /\ yielded = <<>> /\ ops = 0
    /\ other_it = <<>> /\ collected = <<>>

NextQuery ==
    \/ Fold
    \/ FoldItem
    \/ FoldRaise
    \/ FoldYield
    \/ Flat
    \/ FlatItem
    \/ FlatYield
    \/ Chain
    \/ Concat
    \/ ConcatItem
    \/ ConcatEnd
    \/ QueryCollect

SpecQuery == InitQuery /\ [][NextQuery]_vars

(***************************************************************************)
(* Query.apply drained step by step  (ninja.py 271-301)                    *)
(*                                                                         *)
(* One Query is there when the block is entered; its generator yields the  *)
(* Elements of a glob or those fold or flat have yielded (several paths,   *)
(* or none).  The script calls apply on it and takes the result with       *)
(* next() or with collect_files.                                           *)
(***************************************************************************)
\* the Elements the source Query yields: of one path (an upper-case
\* extension, no extension), of two paths, of none
SourceElements ==
    {Element(<<File("a", "c")>>, TypeName(<<"c">>)),
     Element(<<File("B", "C")>>, TypeName(<<"c">>)),
     Element(<<File("x", "h")>>, TypeName(<<"h">>)),
     Element(<<(<<"a", "p", "p">>)>>, TypeName(<<>>)),
     Element(<<File("a", "c"), File("d", "c")>>, TypeName(<<"c">>)),
     Element(<<>>, <<":undefined">>)}

\* the stage lists the script gives to apply
ApplyRules == {<<"unit">>, <<"cc">>, <<"cp", "unit">>}

\* apply as it would be if the call ran the generator up to its first yield
ApplyCallEager ==
    /\ Running /\ Len(gens) = 1
    /\ \E rule \in ApplyRules :
           /\ rule # <<"unit">> =>
                  \A i \in DOMAIN gens[1].items :
                      gens[1].items[i].element # <<>>
           /\ Commit(NextElement(
                  [State EXCEPT !.gens =
                      Append(gens, Generator("apply", <<>>, 1, rule))], 2).S)
    /\ UNCHANGED <<closed, default_item, scope, calls, result,
                   run_vars, eval_vars, script_vars, query_vars>>

\* Query.apply(*rule) on the source Query; the script's rule-backed stages
\* are given Elements of at least one path
ApplyCall ==
    /\ Running /\ Len(gens) = 1
    /\ \E rule \in ApplyRules :
           /\ rule # <<"unit">> =>
                  \A i \in DOMAIN gens[1].items :
                      gens[1].items[i].element # <<>>
           /\ gens' = Append(gens, Generator("apply", <<>>, 1, rule))
    /\ UNCHANGED <<file_handler, closed, build_item, default_item,
                   generated_rule, g_log, scope, calls, result,
                   run_vars, eval_vars, script_vars, query_vars>>

\* next() on the Query apply returned
PullNext ==
    /\ Running /\ Len(gens) = 2 /\ ~gens[2].done
    /\ Commit(NextElement(State, 2).S)
    /\ result' = [kind |-> NextElement(State, 2).kind,
                  val |-> NextElement(State, 2).val]
    /\ UNCHANGED <<closed, default_item, scope, calls, run_vars, eval_vars,
                   script_vars, query_vars>>

InitApply ==
    /\ RunIdle /\ EvalIdle /\ ScriptIdle /\ QueryIdle
    /\ file_handler = Header /\ closed = FALSE
    /\ build_item = <<>> /\ default_item = <<>>
    /\ generated_rule = [st \in Stages |-> FALSE]
    /\ \E items \in SeqsUpTo(SourceElements, MaxItems) :
           gens = <<Generator("from_glob", items, 0, <<>>)>>
    /\ g_log = <<>>
    /\ scope = "open" /\ calls = 0
    /\ result = [kind |-> "none", val |-> <<>>]

NextApply ==
    \/ ApplyCall
    \/ PullNext
    \/ CollectFiles
    \/ Exit

SpecApply == InitApply /\ [][NextApply]_vars

\* the four combinators of Query together: a script either folds, flattens
\* and concatenates a Query of globbed files or applies stages to one
InitCombinators == InitQuery \/ InitApply

NextCombinators ==
    \/ Fold
    \/ FoldItem
    \/ FoldRaise
    \/ FoldYield
    \/ Flat
    \/ FlatItem
    \/ FlatYield
    \/ Chain
    \/ Concat
    \/ ConcatItem
    \/ ConcatEnd
    \/ QueryCollect
    \/ ApplyCall
    \/ PullNext
    \/ CollectFiles
    \/ Exit

SpecCombinators == InitCombinators /\ [][NextCombinators]_vars

(***************************************************************************)
(* `Query.from_glob(...).fold().apply(stage)` inside the `with` block of a  *)
(* NinjaGenerator: the Element fold yields is the upstream of apply.        *)
(***************************************************************************)
\* the stage the script applies to the folded Query
FoldedRules == {<<"unit">>, <<"cp">>, <<"cc">>, <<"ld">>}

\* fold raises inside the block: the exception is on its way out of it
FoldRaiseInBlock ==
    /\ q_pc = "fold" /\ q_n < Len(self_it)
    /\ FoldMismatch(Item)
    /\ q_pc' = "fold_raise"
    /\ result' = [kind |-> "raise", val |-> "QueryTypeError"]
    /\ UNCHANGED <<self_it, q_n, fold_type, fold_lst, flat_result, yielded,
                   ops, other_it, collected, file_handler, closed,
                   build_item, default_item, generated_rule, gens, g_log,
                   scope, calls, run_vars, eval_vars, script_vars>>

\* apply(stage) on the Query fold returned; the script's copier, which
\* reads input[0], is given an Element of at least one path
ApplyFolded ==
    /\ Running /\ q_pc = "fold_end" /\ gens = <<>>
    /\ \E rule \in FoldedRules :
           /\ rule = <<"cp">> =>
                  \A i \in DOMAIN yielded : yielded[i].element # <<>>
           /\ gens' = <<Generator("from_glob", yielded, 0, <<>>),
                        Generator("apply", <<>>, 1, rule)>>
    /\ UNCHANGED <<file_handler, closed, build_item, default_item,
                   generated_rule, g_log, scope, calls, result,
                   run_vars, eval_vars, script_vars, query_vars>>

InitFoldApply ==
    /\ RunIdle /\ EvalIdle /\ ScriptIdle
    /\ file_handler = Header /\ closed = FALSE
    /\ build_item = <<>> /\ default_item = <<>>
    /\ generated_rule = [st \in Stages |-> FALSE]
    /\ gens = <<>> /\ g_log = <<>>
    /\ scope = "open" /\ calls = 0
    /\ result = [kind |-> "none", val |-> <<>>]
    /\ \E files \in SeqsUpTo(QueryFiles \cup {File("o", "o")}, MaxItems) :
           self_it = GlobElements(files)
    /\ q_pc = "query" /\ q_n = 0 /\ fold_type = <<>> /\ fold_lst = <<>>
    /\ flat_result = <<>> /\ yielded = <<>> /\ ops = 0
    /\ other_it = <<>> /\ collected = <<>>

NextFoldApply ==
    \/ Fold
    \/ FoldItem
    \/ FoldRaiseInBlock
    \/ FoldYield
    \/ ApplyFolded
    \/ PullNext
    \/ CollectFiles
    \/ Exit

SpecFoldApply == InitFoldApply /\ [][NextFoldApply]_vars

(***************************************************************************)
(* The dependency graph the registry declares                              *)
(***************************************************************************)
\* the names an action's `deps` list holds (none for an unregistered name)
Deps(a) == IF a \in DOMAIN actions THEN Range(actions[a].deps) ELSE {}

RECURSIVE ReachFrom(_)
\* the names of S and everything they depend on, directly or transitively
ReachFrom(S) ==
    LET T == S \cup UNION {Deps(a) : a \in S}
    IN  IF T = S THEN S ELSE ReachFrom(T)

\* the direct and transitive dependencies of a
TransDeps(a) == ReachFrom(Deps(a))

\* a lies on a dependency cycle
OnCycle(a) == a \in DOMAIN actions /\ a \in TransDeps(a)

\* a dependency cycle is reachable from a
CycleReachable(a) == \E c \in ReachFrom({a}) : OnCycle(c)

\* how often the callback of a has been entered
Started(a) == Cardinality({i \in DOMAIN log : log[i] = <<"start", a>>})

\* the requested actions _run_actions has handed to _run_single_action
Run == {need_run[k] : k \in 1..(idx - 1)}

\* the path a cycle error prints: f'cycle reference: {act.name} -> {hint_msg}'
Reported == <<error.name>> \o error.hint

(***************************************************************************)
(* C1: in one invocation of the runner every callback is entered at most   *)
(* once, and when the invocation returns, every requested action and every *)
(* direct or transitive dependency of one (shared or not, requested twice  *)
(* or not) has had its callback run exactly once.                          *)
(***************************************************************************)
C1_CallbackOnce ==
    /\ \A a \in ActionNames : Started(a) <= 1
    /\ status = "done" =>
           \A a \in ReachFrom(Range(need_run)) : Started(a) = 1

\* two different requested actions share a dependency, and the run returned
C1_Witness ==
    /\ status = "done"
    /\ \E a, b \in Range(need_run) :
           /\ a # b
           /\ \E c \in (TransDeps(a) \cap TransDeps(b)) \ {a, b} :
                  Started(c) = 1

(***************************************************************************)
(* C2 as stated: once the runner has started a requested action from which *)
(* a dependency cycle is reachable, the run ends with the cycle error; no  *)
(* callback of an action on a cycle is ever entered; for A -> [B],         *)
(* B -> [A] and A run, the error prints A -> B -> A.                       *)
(***************************************************************************)
NoCallbackOnCycle == \A a \in ActionNames : OnCycle(a) => Started(a) = 0

TwoCycleReport ==
    \A a, b \in DOMAIN actions :
        (/\ a # b
         /\ actions[a].deps = <<b>>
         /\ actions[b].deps = <<a>>
         /\ idx > 1 /\ need_run[idx - 1] = a
         /\ error.kind = "cycle")
        => Reported = <<a, b, a>>

C2_Original ==
    /\ NoCallbackOnCycle
    /\ TwoCycleReport
    /\ (status # "running" /\ \E a \in Run : CycleReachable(a))
           => error.kind = "cycle"

(***************************************************************************)
(* C2 amended: such a run never returns normally: it fails, and with the   *)
(* cycle error unless a callback raised or an unregistered dependency was  *)
(* reached first; no callback of an action on a cycle is ever entered, and *)
(* the two-action cycle is reported as A -> B -> A.                        *)
(***************************************************************************)
C2_CycleFails ==
    /\ NoCallbackOnCycle
    /\ TwoCycleReport
    /\ \A a \in Run :
           (status # "running" /\ CycleReachable(a)) =>
               /\ status = "failed"
               /\ \/ error.kind = "cycle"
                  \/ error.kind = "callback"
                  \/ /\ error.kind = "not_found"
                     /\ ~(ReachFrom({a}) \subseteq DOMAIN actions)

\* A -> [B], B -> [A], A requested: the cycle error, printing A -> B -> A
C2_Witness ==
    /\ status = "failed"
    /\ error.kind = "cycle"
    /\ need_run = <<"A">>
    /\ actions["A"].deps = <<"B">>
    /\ actions["B"].deps = <<"A">>
    /\ Reported = <<"A", "B", "A">>

(***************************************************************************)
(* C3: when a callback is entered, the callback of every direct and        *)
(* transitive dependency of its action has already returned in this        *)
(* invocation; and callbacks do not overlap: the event after a callback's  *)
(* start is that callback's own return or failure.                         *)
(***************************************************************************)
C3_DependencyOrder ==
    \A i \in DOMAIN log :
        log[i][1] = "start" =>
            /\ \A d \in TransDeps(log[i][2]) :
                   \E j \in 1..(i - 1) : log[j] = <<"end", d>>
            /\ i < Len(log) =>
                   /\ log[i + 1][1] \in {"end", "raise"}
                   /\ log[i + 1][2] = log[i][2]

\* a chain a -> b -> c has run to its end, a last
C3_Witness ==
    /\ status = "done"
    /\ \E a \in DOMAIN actions :
           /\ Cardinality(TransDeps(a)) = 2
           /\ Len(log) = 6
           /\ log[5] = <<"start", a>>
           /\ log[6] = <<"end", a>>

(***************************************************************************)
(* C13: a requested name that is not registered, and a dependency name     *)
(* that is not registered, make the run fail with the not-found error as   *)
(* soon as the runner comes to them; for a dependency the error lists the  *)
(* actions through which it was reached, from the one that declares it     *)
(* back to the requested one; an action that declares an unregistered      *)
(* dependency never has its callback entered, and a run that returns       *)
(* normally met registered names only.                                     *)
(***************************************************************************)
\* hint lists a chain of declared dependencies, the declaring action first
IsChainTo(hint, name) ==
    /\ hint # <<>>
    /\ hint[1] \in DOMAIN actions /\ name \in Deps(hint[1])
    /\ \A k \in 1..(Len(hint) - 1) :
           hint[k + 1] \in DOMAIN actions /\ hint[k] \in Deps(hint[k + 1])
    /\ idx > 1 /\ hint[Len(hint)] = need_run[idx - 1]

NotFoundReport ==
    /\ error.kind = "cannot_find" =>
           /\ status = "failed"
           /\ idx <= Len(need_run) /\ error.name = need_run[idx]
           /\ error.name \notin DOMAIN actions
    /\ error.kind = "not_found" =>
           /\ status = "failed"
           /\ error.name \notin DOMAIN actions
           /\ IsChainTo(error.hint, error.name)
           /\ \A k \in 1..Len(error.hint) : Started(error.hint[k]) = 0
    /\ \A a \in DOMAIN actions :
           ~(Deps(a) \subseteq DOMAIN actions) => Started(a) = 0
    /\ status = "done" =>
           ReachFrom(Range(need_run)) \subseteq DOMAIN actions

\* the step the runner takes when it has come to a name not registered
NotFoundStep ==
    /\ (/\ status = "running" /\ stack = <<>>
        /\ idx <= Len(need_run) /\ need_run[idx] \notin DOMAIN actions)
           => /\ status' = "failed"
              /\ error'.kind = "cannot_find" /\ error'.name = need_run[idx]
              /\ log' = log
    /\ (/\ status = "running" /\ stack # <<>>
        /\ Top.action \notin DOMAIN actions)
           => /\ status' = "failed"
              /\ error'.kind = "not_found" /\ error'.name = Top.action
              /\ log' = log

C13_NotFound == []NotFoundReport /\ [][NotFoundStep]_vars

\* A -> [B], B -> [C], C not registered, A requested: C is reported as
\* reached through B and A
C13_Witness ==
    /\ status = "failed"
    /\ error.kind = "not_found"
    /\ error.name = "C"
    /\ need_run = <<"A">>
    /\ error.hint = <<"B", "A">>

(***************************************************************************)
(* What the generator's file and the pipeline's events show                *)
(***************************************************************************)
\* the positions of g_log that hold an event of the given kind
Events(kind) == {i \in 1..Len(g_log) : g_log[i][1] = kind}

\* the positions of the file that hold a line of the given kind
Lines(kind) == {i \in 1..Len(file_handler) : file_handler[i][1] = kind}

\* the lines of a rule block
RuleKinds == {"rule", "command", "description", "depfile"}

\* the stages whose generate_rule writes a rule
RuleBacked == Stages \ {"unit"}

\* the events a stage invocation leaves: the call, its rule, its build
\* statement, the Element yielded
InvocationKinds == {"invoke", "rule", "build", "yield", "noext"}

\* the position of the first "check" event after position i, or the end
NextCheck(i) ==
    IF \E j \in Events("check") : j > i
    THEN CHOOSE j \in Events("check") :
             j > i /\ \A k \in Events("check") : k > i => j <= k
    ELSE Len(g_log) + 1

\* the build statements add_build was called with, in call order
RECURSIVE BuildCalls(_)
BuildCalls(n) ==
    IF n = 0 THEN <<>>
    ELSE IF g_log[n][1] = "build" THEN Append(BuildCalls(n - 1), g_log[n][2])
    ELSE BuildCalls(n - 1)

\* the build statements of the file, in file order
RECURSIVE BuildLines(_)
BuildLines(n) ==
    IF n = 0 THEN <<>>
    ELSE IF file_handler[n][1] = "build"
         THEN Append(BuildLines(n - 1), file_handler[n])
    ELSE BuildLines(n - 1)

\* the `with` block has been left
Released == scope \in {"exited", "failed"}

(***************************************************************************)
(* C4: apply checks every (Element, Stage) pair: the Element's tag is in   *)
(* the Stage's accepted tags, or the Stage accepts `:any`.  On a mismatch  *)
(* QueryTypeError is raised before the Stage is invoked: for that pair     *)
(* there is no invocation, no rule, no build statement and no Element      *)
(* yielded.  On a match the Stage is invoked with the Element's files.     *)
(***************************************************************************)
C4_TypeCheck ==
    /\ \A i \in Events("check") :
         LET st == g_log[i][3]
             item == g_log[i][4]
             accepted == InputType(st)
         IN  IF item.type_name \in accepted \/ AnyType \in accepted
             THEN /\ i < Len(g_log)
                  /\ g_log[i + 1] = <<"invoke", st, item.element>>
             ELSE /\ i < Len(g_log)
                  /\ g_log[i + 1] = <<"typeerror", g_log[i][2], st, item>>
                  /\ \A j \in (i + 1)..(NextCheck(i) - 1) :
                         g_log[j][1] \notin InvocationKinds
                  /\ gens[g_log[i][2]].done
    /\ (g_log # <<>> /\ g_log[Len(g_log)][1] = "typeerror")
           => result = [kind |-> "raise", val |-> "QueryTypeError"]

\* a stage that never ran meets an Element it does not accept, after another
\* stage has yielded: its rule is not in the file
C4_Witness ==
    /\ Events("yield") # {}
    /\ \E i \in Events("typeerror") :
           /\ g_log[i][3] = "ld"
           /\ ~generated_rule["ld"]
           /\ \A l \in Lines("rule") : file_handler[l][2] # "ld"

(***************************************************************************)
(* C5: a Stage writes its rule at its first application and never again:   *)
(* a rule-backed Stage that was applied, however often and in however many *)
(* Queries, has exactly one rule block in the file, written right after    *)
(* its first invocation; a Stage never applied has none; UnitStage has     *)
(* none.                                                                   *)
(***************************************************************************)
C5_RuleOnce ==
    \A st \in Stages :
        LET applied == {i \in Events("invoke") : g_log[i][2] = st}
            blocks == {l \in Lines("rule") : file_handler[l][2] = st}
            commands == {l \in Lines("command") : file_handler[l][2] = st}
            written == {i \in Events("rule") : g_log[i][2] = st}
        IN  IF st \in RuleBacked /\ applied # {}
            THEN /\ Cardinality(blocks) = 1
                 /\ Cardinality(commands) = 1
                 /\ Cardinality(written) = 1
                 /\ \A w \in written :
                        /\ w - 1 \in applied
                        /\ \A i \in applied : w - 1 <= i
                 /\ generated_rule[st]
            ELSE blocks = {} /\ commands = {} /\ written = {}

\* one stage was applied by two Queries, four times in all
C5_Witness ==
    \E st \in RuleBacked :
        /\ Cardinality({i \in Events("invoke") : g_log[i][2] = st}) = 4
        /\ \E i, j \in Events("check") :
               /\ g_log[i][3] = st /\ g_log[j][3] = st
               /\ g_log[i][2] # g_log[j][2]
        /\ Cardinality({l \in Lines("rule") : file_handler[l][2] = st}) = 1

(***************************************************************************)
(* C6: the build statements, the statement count and the `default` line    *)
(* are written once, when the `with` block is left, and the file is then   *)
(* closed; this holds however the block is left, an exception included.    *)
(* Inside the block none of them is in the file and the file is open;      *)
(* after it the file is what was written inside the block, then the        *)
(* buffered build statements, the count, the comment and one default line. *)
(***************************************************************************)
C6_FlushOnExit ==
    /\ scope = "open" =>
           /\ ~closed
           /\ Lines("build") \cup Lines("count") \cup Lines("default") = {}
    /\ Released =>
           /\ closed
           /\ Cardinality(Lines("count")) = 1
           /\ Cardinality(Lines("default")) = 1
           /\ Cardinality(Lines("build")) = Len(build_item)
           /\ Len(file_handler) >= Len(build_item) + 3
           /\ SubSeq(file_handler, Len(file_handler) - Len(build_item) - 2,
                     Len(file_handler))
                  = build_item \o <<<<"count", Len(build_item)>>,
                                    <<"default_comment">>,
                                    <<"default", default_item>>>>

\* an exception left the block while build statements were buffered
C6_Witness ==
    /\ scope = "failed"
    /\ result.kind = "raise"
    /\ Len(build_item) >= 2
    /\ closed

(***************************************************************************)
(* C7: whatever the order of the add_rule, add_build and add_defaults      *)
(* calls inside the block, the file starts with the header, no line of a   *)
(* rule block follows a build statement, every build statement precedes    *)
(* the default line, there is at most one default line, and the build      *)
(* statements stand in the order of the add_build calls.                   *)
(***************************************************************************)
C7_EmitOrder ==
    /\ Len(file_handler) >= Len(Header)
    /\ SubSeq(file_handler, 1, Len(Header)) = Header
    /\ \A i \in Lines("build") :
           /\ \A j \in (i + 1)..Len(file_handler) :
                  file_handler[j][1] \notin RuleKinds
           /\ \A j \in Lines("default") : i < j
    /\ \A i \in 1..Len(file_handler) :
           file_handler[i][1] \in RuleKinds => i > Len(Header)
    /\ Cardinality(Lines("default")) <= 1
    /\ Released =>
           /\ BuildLines(Len(file_handler)) = BuildCalls(Len(g_log))
           /\ Lines("default") = {Len(file_handler)}

\* add_build was called before add_rule, the script called the generator
\* itself, and the block was left with default targets
C7_Witness ==
    /\ scope = "exited"
    /\ calls > 0
    /\ default_item # <<>>
    /\ \E i \in Events("build"), j \in Events("rule") : i < j
    /\ Cardinality(Lines("rule")) >= 2

(***************************************************************************)
(* Claims about BuildScript                                                *)
(***************************************************************************)
\* the names of the Actions declared with default set, in declaration order
DeclaredDefaults ==
    LET d == SelectSeq(declared, LAMBDA x : x.default)
    IN  [k \in DOMAIN d |-> d[k].name]

(***************************************************************************)
(* C14: when no action is requested, the actions run are the registered    *)
(* actions with default set, and no others, in the order in which the      *)
(* script declares them.                                                   *)
(***************************************************************************)
C14_DefaultsInDeclarationOrder ==
    (s_pc = "run_actions" /\ Len(tool) = 0) => need_run = DeclaredDefaults

\* the names self.actions holds, in insertion order
RegistryNames == [k \in DOMAIN registry |-> registry[k].name]

\* the first member of the script that has the given name
FirstNamed(name) ==
    members[CHOOSE i \in DOMAIN members :
                /\ members[i].name = name
                /\ \A j \in 1..(i - 1) : members[j].name # name]

(***************************************************************************)
(* C15: the names of the registry are unique.  Registering an Action whose *)
(* name is that of a registered one (a built-in, or another Action of the  *)
(* script) raises the duplicate-name error during registration, before     *)
(* anything runs, and the process ends with status 1; the entry registered *)
(* first is never replaced.                                                *)
(***************************************************************************)
C15_UniqueNames ==
    /\ \A i, j \in DOMAIN registry :
           i # j => registry[i].name # registry[j].name
    /\ DOMAIN actions = Range(RegistryNames)
    /\ s_pc # "init" =>
           /\ SubSeq(RegistryNames, 1, Len(Builtins)) = Builtins
           /\ \A k \in DOMAIN registry :
                  IF k <= Len(Builtins)
                  THEN /\ actions[registry[k].name].deps = <<"ninja">>
                       /\ ~registry[k].default
                  ELSE /\ actions[registry[k].name].deps
                              = FirstNamed(registry[k].name).deps
                       /\ registry[k].default
                              = FirstNamed(registry[k].name).default
    /\ error.kind = "existed" =>
           /\ s_pc = "quit" /\ exit_code = 1
           /\ s_i \in DOMAIN members /\ error.name = members[s_i].name
           /\ \/ error.name \in Range(Builtins)
              \/ \E j \in 1..(s_i - 1) : members[j].name = error.name
           /\ status = "idle" /\ log = <<>>
    /\ s_pc \in {"need_run", "run_actions"} =>
           /\ \A i, j \in DOMAIN members :
                  i # j => members[i].name # members[j].name
           /\ \A i \in DOMAIN members : members[i].name \notin Range(Builtins)
           /\ Len(registry) = Len(Builtins) + Len(members)

\* a second Action named "A" meets the one registered before it
C15_Witness ==
    /\ error.kind = "existed"
    /\ error.name = "A"
    /\ Len(registry) > Len(Builtins)
    /\ actions["A"].deps = <<>>
    /\ members[s_i].deps = <<"B">>

\* some user variable has the name of a key setup_global_variable made
Collides == \E i \in DOMAIN variables : variables[i][1] \in DOMAIN InitialStore

\* the merge of the user variables has been come to: the options table,
\* computed just before it, is there
MergeReached == options_table # <<>>

\* C16: when the merge of the user variables is come to and one of them has
\* the name of a key of the store, the run ends with the redefinition error
\* of the first such variable and exit status 1, the store is as
\* setup_global_variable left it and no callback has run; and no key of the
\* store other than option_hash ever has another value than its first.
C16_NoRedefinition ==
    /\ \A k \in DOMAIN store \cap (DOMAIN InitialStore \ {"option_hash"}) :
           store[k] = InitialStore[k]
    /\ s_pc # "init" => DOMAIN InitialStore \subseteq DOMAIN store
    /\ Collides =>
           /\ s_pc \notin {"option_hash", "run_actions"}
           /\ s_pc # "init" => store = InitialStore
           /\ log = <<>> /\ status = "idle"
           /\ (MergeReached /\ s_pc = "quit") =>
                  /\ error.kind = "redefined"
                  /\ \E i \in DOMAIN variables :
                         /\ error.name = variables[i][1]
                         /\ error.name \in DOMAIN InitialStore
                         /\ \A j \in 1..(i - 1) :
                                variables[j][1] \notin DOMAIN InitialStore
                  /\ exit_code = 1

\* the second user variable is named root: the run ended with its
\* redefinition error, the first one not merged
C16_Witness ==
    /\ s_pc = "quit" /\ error.kind = "redefined" /\ error.name = "root"
    /\ Len(variables) = 2 /\ variables[1][1] = "my"
    /\ "my" \notin DOMAIN store

\* the number of `=` signs of an option string
Equals(a) == Cardinality({k \in DOMAIN a : a[k] = "="})

\* the option string is a bare name, or a name, one `=` and a value
IsBare(a) == Len(a) = 1 /\ a[1] # "="

IsPair(a) == Equals(a) = 1 /\ Len(a) >= 2 /\ a[1] # "=" /\ a[2] = "="

\* the name an option string gives, and the value it gives or stands for
ArgName(a) == a[1]

ArgValue(a) == IF IsBare(a) THEN "1" ELSE IF Len(a) = 2 THEN "" ELSE a[3]

\* the option is declared and its validator accepts the value
Declared(n) == n \in DOMAIN Options

Accepts(n, v) == Options[n].any \/ v \in Options[n].accepts

\* the option string cannot be taken: not of either form, an undeclared
\* name, or a value (given or stood for) the validator rejects
Bad(a) ==
    \/ ~(IsBare(a) \/ IsPair(a))
    \/ ~Declared(ArgName(a))
    \/ ~Accepts(ArgName(a), ArgValue(a))

\* the error _parse_options raises for the option string
OptionErrorOf(a) ==
    IF ~(IsBare(a) \/ IsPair(a)) THEN "cannot_parse"
    ELSE IF ~Declared(ArgName(a)) THEN "undefined_option"
    ELSE "invaild"

OptionError == error.kind \in {"cannot_parse", "undefined_option", "invaild"}

\* the run came to parse the options: the registration succeeded and there
\* was an action to run
ParseReached ==
    /\ s_pc \in {"variables", "option_hash", "run_actions", "quit"}
    /\ error.kind \notin {"existed", "missing_ninja"}
    /\ Len(NeedRun) # 0

\* C17 as stated: option strings of the two forms fail only for an
\* undeclared name or for a given value the validator rejects, a bare name
\* being set to '1'.
C17_Original ==
    (OptionError /\ \A i \in DOMAIN opt_args :
                        IsBare(opt_args[i]) \/ IsPair(opt_args[i]))
    => \E i \in DOMAIN opt_args :
           \/ ~Declared(ArgName(opt_args[i]))
           \/ /\ IsPair(opt_args[i])
              /\ ~Accepts(ArgName(opt_args[i]), ArgValue(opt_args[i]))

\* C17 (amended): when the options are parsed, a bare name stands for the
\* value '1' and name=value for value; the option is set to it only if it
\* is declared and its validator accepts that value ('1' included). The
\* first option string that has more than one `=`, an undeclared name or a
\* rejected value ends the run with its error and exit status 1, no table
\* built and no callback run. Otherwise the table has every declared
\* option, with the value of the last string naming it, or its default.
C17_OptionParsing ==
    /\ OptionError =>
           /\ ParseReached /\ s_pc = "quit" /\ exit_code = 1
           /\ \E i \in DOMAIN opt_args :
                  /\ Bad(opt_args[i])
                  /\ \A j \in 1..(i - 1) : ~Bad(opt_args[j])
                  /\ error.kind = OptionErrorOf(opt_args[i])
                  /\ error.kind # "cannot_parse"
                         => error.name = ArgName(opt_args[i])
    /\ (\E i \in DOMAIN opt_args : Bad(opt_args[i])) =>
           /\ options_table = <<>>
           /\ log = <<>> /\ status = "idle"
           /\ ParseReached => OptionError
    /\ (ParseReached /\ \A i \in DOMAIN opt_args : ~Bad(opt_args[i])) =>
           /\ DOMAIN options_table = DOMAIN Options
           /\ \A n \in DOMAIN Options :
                  LET given == {i \in DOMAIN opt_args :
                                   ArgName(opt_args[i]) = n}
                  IN  IF given = {} THEN options_table[n] = Options[n].value
                      ELSE /\ \E i \in given :
                                 /\ \A j \in given : j <= i
                                 /\ options_table[n] = ArgValue(opt_args[i])
                           /\ Accepts(n, options_table[n])

\* `-o release`: release is '1', mode and jobs keep their defaults, and a
\* callback has run
C17_Witness ==
    /\ opt_args = <<(<<"release">>)>>
    /\ options_table # <<>>
    /\ options_table["release"] = "1"
    /\ options_table["mode"] = "debug" /\ options_table["jobs"] = "2"
    /\ log # <<>>

\* an exception has been raised in the run
Raised == error.kind # "none"

\* C18: from the moment an exception is raised in a run (by a callback, by
\* the resolution of the actions, or before it), no callback is entered or
\* left any more, the actions completed before it stay completed, each run
\* once, and the process never ends with status 0: it ends with status 1.
C18_FatalStops ==
    /\ [][Raised => /\ log' = log
                    /\ track_list' = track_list
                    /\ error' = error
                    /\ exit_code' \in {-1, 1}]_vars
    /\ [](Raised => /\ exit_code # 0
                    /\ stack = <<>>
                    /\ s_pc = "quit" => exit_code = 1
                    /\ \A n \in Range(track_list) :
                           Cardinality({k \in DOMAIN log :
                                           log[k] = <<"start", n>>}) = 1)

\* a callback raised after another action had completed and while a
\* requested action was still to run: the process has ended with status 1
C18_Witness ==
    /\ error.kind = "callback"
    /\ track_list # <<>>
    /\ \E n \in Range(need_run) :
           n \notin Range(track_list) /\ n # error.name
    /\ s_pc = "quit" /\ exit_code = 1

(***************************************************************************)
(* Claims about Query.fold and Query.flat                                  *)
(***************************************************************************)
\* the tags of a sequence of Elements
Tags(els) == {els[i].type_name : i \in DOMAIN els}

\* the path lists of a sequence of Elements, one after the other
RECURSIVE Paths(_)
Paths(els) ==
    IF Len(els) = 0 THEN <<>>
    ELSE Paths(SubSeq(els, 1, Len(els) - 1)) \o els[Len(els)].element

\* the Elements of the sequence that carry the tag
Tagged(els, typ) == SelectSeq(els, LAMBDA e : e.type_name = typ)

\* C19: fold over Elements that do not all share one tag raises
\* QueryTypeError and yields nothing; over a non-empty sequence of Elements
\* of one tag it yields one Element, of that tag, whose paths are the
\* inputs' paths in encounter order.
C19_Fold ==
    /\ (q_pc \in {"fold_end", "fold_raise"}
           /\ Cardinality(Tags(self_it)) > 1)
       => (q_pc = "fold_raise" /\ yielded = <<>>)
    /\ (q_pc \in {"fold_end", "fold_raise"}
           /\ Cardinality(Tags(self_it)) = 1)
       => /\ q_pc = "fold_end"
          /\ Len(yielded) = 1
          /\ yielded[1].type_name \in Tags(self_it)
          /\ yielded[1].element = Paths(self_it)

\* C20: flat yields one Element for each tag of its input; the Element of
\* a tag holds the paths of the input Elements of that tag, each as often
\* as they carry it, in encounter order.
C20_Flat ==
    q_pc = "flat_end" =>
           /\ Len(yielded) = Cardinality(Tags(self_it))
           /\ Tags(yielded) = Tags(self_it)
           /\ \A k \in DOMAIN yielded :
                  yielded[k].element
                      = Paths(Tagged(self_it, yielded[k].type_name))

\* flat has taken Elements tagged c, h, c, one of them holding two paths,
\* and yielded two
C20_Witness ==
    /\ q_pc = "flat_end"
    /\ Len(self_it) = 3
    /\ self_it[1].type_name = self_it[3].type_name
    /\ self_it[1].type_name # self_it[2].type_name
    /\ Len(self_it[1].element) = 2
    /\ Len(yielded) = 2

\* C21: a.concat(b) yields the Elements of a, in a's order, and after them
\* the Elements of b, in b's order: what it has yielded is at every moment
\* a prefix of a's Elements followed by b's; collect_files on the result
\* returns a's paths followed by b's paths.
C21_Concat ==
    /\ q_pc = "concat" => yielded = SubSeq(self_it \o other_it, 1, q_n)
    /\ q_pc = "concat_end" => yielded = self_it \o other_it
    /\ (q_pc = "collected" /\ collected.of = "concat_end") =>
           collected.lst = Paths(self_it) \o Paths(other_it)

\* a holds two Elements, the first of two paths, b two Elements, and
\* collect_files has returned the five paths
C21_Witness ==
    /\ q_pc = "collected" /\ collected.of = "concat_end"
    /\ Len(self_it) = 2 /\ Len(self_it[1].element) = 2
    /\ Len(other_it) = 2
    /\ Len(collected.lst) = 5

(***************************************************************************)
(* Claims about Stage and Query.apply                                      *)
(***************************************************************************)
\* the positions of the log at which the stage was applied to a path list
Invocations(st) ==
    {i \in DOMAIN g_log : g_log[i][1] = "invoke" /\ g_log[i][2] = st}

\* C22: UnitStage refuses no tag; applied to a list of one path it returns
\* that path (apply then yields it, or finds that it has no extension);
\* applied to a list of no path or of several it fails, which ends the
\* pipeline; and it writes no rule and no build statement.
C22_UnitStage ==
    /\ \A i \in DOMAIN g_log :
           /\ g_log[i][1] = "typeerror" => g_log[i][3] # "unit"
           /\ g_log[i][1] = "rule" => g_log[i][2] # "unit"
           /\ g_log[i][1] = "build" => g_log[i][2][3] # "unit"
    /\ \A i \in DOMAIN file_handler :
           file_handler[i][1] = "rule" => file_handler[i][2] # "unit"
    /\ \A i \in DOMAIN build_item : build_item[i][3] # "unit"
    /\ \A i \in Invocations("unit") :
           IF Len(g_log[i][3]) = 1
           THEN /\ i < Len(g_log)
                /\ \/ /\ g_log[i + 1][1] = "yield"
                      /\ g_log[i + 1][3] = "unit"
                      /\ g_log[i + 1][4].element = g_log[i][3]
                   \/ /\ g_log[i + 1][1] = "noext"
                      /\ g_log[i + 1][4] = g_log[i][3][1]
           ELSE /\ i = Len(g_log)
                /\ result.kind = "raise"

\* UnitStage has returned the path of a one-path Element, and has then
\* failed on an Element of two paths
C22_Witness ==
    \E i, j \in Invocations("unit") :
        /\ i < j
        /\ Len(g_log[i][3]) = 1 /\ g_log[i + 1][1] = "yield"
        /\ Len(g_log[j][3]) = 2
        /\ result.kind = "raise"

\* ext is the extension of path p: what follows the last dot of p's last
\* component, that component having a character other than a dot before it
IsExtOf(ext, p) ==
    LET dot == Len(p) - Len(ext)
    IN  /\ Len(ext) >= 1 /\ dot >= 2
        /\ p[dot] = "."
        /\ SubSeq(p, dot + 1, Len(p)) = ext
        /\ \A k \in DOMAIN ext : ext[k] \notin {".", "/"}
        /\ \E j \in 1..(dot - 1) :
               /\ p[j] \notin {".", "/"}
               /\ \A k \in j..(dot - 1) : p[k] # "/"

Extensions(p) == {ext \in {SubSeq(p, k, Len(p)) : k \in 2..Len(p)} : IsExtOf(ext, p)}

\* the path the stage application logged just before position i returned
StageOutput(i) ==
    IF g_log[i - 1][1] = "build" THEN g_log[i - 1][2][2]
    ELSE g_log[i - 1][3][1]

\* C23: an Element apply yields holds one path, the output of the stage
\* just applied, and its tag is type_ followed by the lower-case extension
\* of that path, whatever the tag of the input Element; when the output
\* has no extension apply yields nothing for it and raises QueryTypeError.
C23_ApplyTag ==
    \A i \in DOMAIN g_log :
        /\ g_log[i][1] = "yield" =>
               LET out == g_log[i][4]
               IN  /\ Len(out.element) = 1
                   /\ out.element[1] = StageOutput(i)
                   /\ \E ext \in Extensions(out.element[1]) :
                          /\ out.type_name[1] = "type_"
                          /\ Len(out.type_name) = Len(ext) + 1
                          /\ \A k \in DOMAIN ext :
                                 out.type_name[k + 1]
                                     = (IF ext[k] = "C" THEN "c"
                                        ELSE IF ext[k] = "H" THEN "h"
                                        ELSE IF ext[k] = "O" THEN "o"
                                        ELSE ext[k])
        /\ g_log[i][1] = "noext" =>
               /\ g_log[i][4] = StageOutput(i)
               /\ Extensions(g_log[i][4]) = {}
               /\ i = Len(g_log)
               /\ result.kind = "raise"
        /\ (g_log[i][1] = "invoke" /\ i < Len(g_log)) =>
               \E j \in (i + 1)..Len(g_log) :
                   /\ j <= i + 3
                   /\ g_log[j][1] \in {"yield", "noext"}
                   /\ (g_log[j][1] = "yield")
                          <=> (Extensions(StageOutput(j)) # {})

\* apply has yielded an Element tagged type_c for the copier's output
\* o/B.C, and has raised for the copier's output o/app, which has no
\* extension
C23_Witness ==
    /\ \E i \in DOMAIN g_log :
           /\ g_log[i][1] = "yield"
           /\ g_log[i][4] = Element(<<(<<"o", "/">> \o File("B", "C"))>>,
                                    TypeName(<<"c">>))
    /\ g_log[Len(g_log)][1] = "noext"
    /\ g_log[Len(g_log)][4] = <<"o", "/", "a", "p", "p">>
    /\ result.kind = "raise"

\* C24: every target of the `default` line of the written file is the
\* output of a build statement written before it.
C24_DefaultsDeclared ==
    \A i \in DOMAIN file_handler :
        file_handler[i][1] = "default" =>
            \A t \in Range(file_handler[i][2]) :
                \E j \in 1..(i - 1) :
                    file_handler[j][1] = "build" /\ file_handler[j][2] = t

\* C25: when the `with` block has been left normally, every Query that
\* apply returned has been drained, by collect_files or by the end of the
\* block, so that the statements of its stages are in the file.
C25_DrainedAtExit ==
    scope = "exited" =>
        \A g \in DOMAIN gens : gens[g].kind = "apply" => gens[g].done

\* C26: the call of apply adds a Query and changes nothing else: the
\* source's generator has taken no step, no stage has been applied and
\* nothing has been written; stages run and write statements only in
\* steps, after the call, in which next() or collect_files advances the
\* generators of the pipeline.  The call of fold, flat or concat leaves
\* the source as it is, with none of its Elements taken and nothing
\* yielded; Elements are taken and yielded only by the steps of the
\* generator the call returned.
C26_LazyCall ==
    /\ [][(q_pc = "query" /\ q_pc' # "query") =>
             /\ q_pc' \in {"fold", "flat", "concat"}
             /\ self_it' = self_it /\ q_n' = 0 /\ yielded' = <<>>]_vars
    /\ [][(q_n' > q_n \/ (yielded' # yielded /\ yielded' # <<>>)) =>
             q_pc \in {"fold", "flat", "concat"}]_vars
    /\ [][Len(gens') > Len(gens) =>
             /\ SubSeq(gens', 1, Len(gens)) = gens
             /\ ~gens'[Len(gens')].done
             /\ g_log' = g_log /\ file_handler' = file_handler
             /\ build_item' = build_item
             /\ generated_rule' = generated_rule]_vars
    /\ [][(g_log' # g_log \/ build_item' # build_item
              \/ generated_rule' # generated_rule) =>
             /\ Len(gens) = 2 /\ Len(gens') = 2
             /\ gens' # gens]_vars
    /\ [](Len(gens) = 1 => g_log = <<>>)

\* after one next() on the Query apply returned, one of the source's two
\* Elements is taken and one stage has been applied to it
C26_Witness ==
    /\ Len(gens) = 2
    /\ Len(gens[1].items) = 1
    /\ result.kind = "yield"
    /\ Cardinality(Events("invoke")) = 1
    /\ Cardinality(Events("build")) = 1

\* C27: the path a cycle error prints follows the dependencies: every name
\* in it is followed by one of that action's own dependencies, so that a
\* cycle A1 -> A2 -> ... -> Ak -> A1 is printed in this order.
C27_CyclePath ==
    error.kind = "cycle" =>
        \A i \in 1..(Len(Reported) - 1) :
            /\ Reported[i] \in DOMAIN actions
            /\ Reported[i + 1] \in Range(actions[Reported[i]].deps)

\* the events of the given kind in a stage log, in order
Kept(events, kind) == SelectSeq(events, LAMBDA e : e[1] = kind)

\* C28: collect_files on the Query that apply(s1, ..., sk) returned over a
\* source of n Elements, when it returns (no QueryTypeError was raised),
\* has applied the stages n*k times, Element by Element in source order
\* and for each Element stage by stage in argument order, has yielded one
\* Element for each application, returns their n*k paths in that order,
\* and has added one build statement for each application of a
\* rule-backed stage, from that Element's paths to that output, and none
\* for a UnitStage.
C28_ElementMajor ==
    [][(Len(gens) = 2 /\ g_log = <<>> /\ build_item = <<>>
          /\ result'.kind = "return" /\ gens'[2].done) =>
         LET src == gens[1].items
             rule == gens[2].rule
             n == Len(src)
             k == Len(rule)
             e(j) == src[((j - 1) \div k) + 1]
             st(j) == rule[((j - 1) % k) + 1]
             invoked == Kept(g_log', "invoke")
             yields == Kept(g_log', "yield")
             backed == {j \in 1..(n * k) : st(j) \in RuleBacked}
             rank(j) == Cardinality({i \in backed : i <= j})
         IN  /\ Len(invoked) = n * k
             /\ Len(yields) = n * k
             /\ Len(result'.val) = n * k
             /\ \A j \in 1..(n * k) :
                    /\ invoked[j] = <<"invoke", st(j), e(j).element>>
                    /\ yields[j][3] = st(j)
                    /\ yields[j][4].element = <<result'.val[j]>>
             /\ Len(build_item') = Cardinality(backed)
             /\ Len(Kept(g_log', "build")) = Cardinality(backed)
             /\ \A j \in backed :
                    LET b == build_item'[rank(j)]
                    IN  /\ b[2] = result'.val[j]
                        /\ b[3] = st(j)
                        /\ b[4] = e(j).element]_vars

\* apply(cp, unit) over three Elements has been collected: six paths, three
\* build statements
C28_Witness ==
    /\ Len(gens) = 2 /\ gens[2].rule = <<"cp", "unit">>
    /\ result.kind = "return"
    /\ Len(result.val) = 6
    /\ Len(build_item) = 3
    /\ Cardinality(Events("yield")) = 6

\* the actions reachable from the request are registered and none of them
\* lies on a dependency cycle
Sound ==
    /\ ReachFrom(Range(need_run)) \subseteq DOMAIN actions
    /\ \A a \in ReachFrom(Range(need_run)) : ~OnCycle(a)

\* C29: the runner terminates; when it ends with an error, the error is an
\* unknown requested action, an unknown dependency, a cycle or a failed
\* callback, and it is a failed callback when the actions reachable from
\* the request are all registered and free of cycles; when it returns,
\* they are, and the callbacks that have run are exactly those of the
\* requested actions and of their direct and transitive dependencies,
\* each entered once and each returned.
C29_Terminates ==
    /\ <>(status \in {"done", "failed"})
    /\ [](status \in {"running", "done", "failed"})
    /\ [](status = "failed" =>
            /\ error.kind \in {"cannot_find", "not_found", "cycle", "callback"}
            /\ Sound => error.kind = "callback")
    /\ [](status = "done" =>
            /\ Sound
            /\ error = NoError
            /\ Range(track_list) = ReachFrom(Range(need_run))
            /\ Len(track_list) = Cardinality(Range(track_list))
            /\ \A a \in ActionNames :
                   Started(a) = (IF a \in Range(track_list) THEN 1 ELSE 0))
    /\ [](\A a \in ActionNames :
            /\ Started(a) <= 1
            /\ Started(a) = 1 => a \in ReachFrom(Range(need_run)))

\* A -> [B, C], B -> [C], A requested: the runner has returned, having run
\* C, B and A
C29_Witness ==
    /\ status = "done"
    /\ need_run = <<"A">>
    /\ actions["A"].deps = <<"B", "C">>
    /\ "C" \in DOMAIN actions
    /\ actions["B"].deps = <<"C">>
    /\ track_list = <<"C", "B", "A">>

\* `-t` names no action and no registered action has default set
NothingToRun ==
    /\ Len(tool) = 0
    /\ \A i \in DOMAIN registry : ~registry[i].default

\* C30: when run() finds no requested and no default action, its one step
\* ends the run with exit status 0 and changes nothing else: no callback
\* is entered, no error is recorded whatever the -D strings are, no
\* options table is built, and the Variable Store stays as
\* setup_global_variable left it, with option_hash 'unknown' and without
\* the user variables.
C30_NothingRun ==
    /\ [][(s_pc = "need_run" /\ NothingToRun) =>
             /\ s_pc' = "quit" /\ exit_code' = 0
             /\ store = InitialStore
             /\ UNCHANGED <<run_vars, reg_vars, opt_vars, eval_vars,
                            gen_vars, query_vars>>]_vars
    /\ []((s_pc = "quit" /\ NothingToRun /\ error = NoError) =>
             /\ exit_code = 0
             /\ log = <<>> /\ track_list = <<>> /\ status = "idle"
             /\ options_table = <<>>
             /\ store = InitialStore
             /\ store["option_hash"] = "unknown")

\* a run with nothing to do has ended with status 0, although its -D
\* string names no option and its variable collides with a built-in key
C30_Witness ==
    /\ s_pc = "quit" /\ exit_code = 0
    /\ NothingToRun
    /\ "ninja" \in DOMAIN actions
    /\ opt_args = <<<<"nope", "=", "1">>>>
    /\ variables = <<<<"option_hash", "x">>>>
    /\ error = NoError
    /\ store["option_hash"] = "unknown"

\* C31: fold over a Query of no Element yields one Element, of no path and
\* tagged `:undefined`; apply on it invokes a stage whose input_type holds
\* `:any`, with the empty path list, and raises QueryTypeError without
\* invoking any other stage.
C31_FoldEmpty ==
    (q_pc = "fold_end" /\ Len(self_it) = 0) =>
        /\ yielded = <<Element(<<>>, <<":undefined">>)>>
        /\ (Len(gens) = 2 /\ g_log # <<>>) =>
               LET st == gens[2].rule[1]
                   item == Element(<<>>, <<":undefined">>)
               IN  /\ g_log[1] = <<"check", 2, st, item>>
                   /\ Len(g_log) >= 2
                   /\ IF <<":any">> \in InputType(st)
                      THEN /\ g_log[2] = <<"invoke", st, <<>>>>
                           /\ Events("typeerror") = {}
                      ELSE /\ g_log = <<g_log[1], <<"typeerror", 2, st, item>>>>
                           /\ result = [kind |-> "raise",
                                        val |-> "QueryTypeError"]
                           /\ build_item = <<>>
                           /\ \A s \in Stages : ~generated_rule[s]

\* the fold of an empty Query has been given to the compiler stage, which
\* takes type_c only, and apply has raised
C31_Witness ==
    /\ q_pc = "fold_end" /\ Len(self_it) = 0
    /\ Len(gens) = 2 /\ gens[2].rule = <<"cc">>
    /\ Events("typeerror") # {}
    /\ result.kind = "raise"

\* the fold of an empty Query has been given to a UnitStage, which was
\* invoked with the empty path list
C31_WitnessAny ==
    /\ q_pc = "fold_end" /\ Len(self_it) = 0
    /\ Len(gens) = 2 /\ gens[2].rule = <<"unit">>
    /\ Events("invoke") # {}

\* the position of the stage invocation that precedes position i of the log
LastInvoke(i) ==
    CHOOSE j \in Events("invoke") :
        j < i /\ \A k \in Events("invoke") : k < i => k <= j

\* C32: when apply raises because the output of a rule-backed stage has no
\* extension, the stage has been invoked for that Element: it is marked as
\* having written its rule, its rule block is in the file once, and the
\* build statement from the Element's paths to that output is the last of
\* build_item; when the block has been left, the file is closed and holds
\* that statement before the count line.  When apply raises because the
\* tag is refused, the stage was not invoked for that Element: nothing
\* lies between the check and the error, no build statement of the stage
\* has that Element's paths, and a stage never invoked before has written
\* no rule.
C32_NoExtSideEffects ==
    /\ \A i \in Events("noext") :
           LET st == g_log[i][3]
               out == g_log[i][4]
               stmt == <<"build", out, st, g_log[LastInvoke(i)][3]>>
           IN  /\ i = Len(g_log)
               /\ result = [kind |-> "raise", val |-> "QueryTypeError"]
               /\ g_log[LastInvoke(i)][2] = st
               /\ st \in RuleBacked =>
                      /\ generated_rule[st]
                      /\ Cardinality({n \in Lines("rule") :
                                         file_handler[n][2] = st}) = 1
                      /\ build_item # <<>>
                      /\ build_item[Len(build_item)] = stmt
                      /\ Released =>
                             /\ closed
                             /\ \E n \in Lines("build") :
                                    /\ file_handler[n] = stmt
                                    /\ file_handler[n + 1]
                                           = <<"count", Len(build_item)>>
    /\ \A i \in Events("typeerror") :
           LET st == g_log[i][3]
               item == g_log[i][4]
           IN  /\ i = Len(g_log)
               /\ result = [kind |-> "raise", val |-> "QueryTypeError"]
               /\ g_log[i - 1] = <<"check", g_log[i][2], st, item>>
               /\ \A n \in DOMAIN build_item :
                      ~(build_item[n][3] = st /\ build_item[n][4] = item.element)
               /\ Invocations(st) = {} =>
                      /\ ~generated_rule[st]
                      /\ \A n \in Lines("rule") : file_handler[n][2] # st

\* the copier's first application gave o/app, apply raised, and the block
\* has been left: the file holds the copier's rule and the statement for
\* o/app
C32_Witness ==
    /\ scope = "failed"
    /\ Len(g_log) >= 4
    /\ g_log[Len(g_log)] = <<"noext", 2, "cp", <<"o", "/", "a", "p", "p">>>>
    /\ Cardinality(Invocations("cp")) = 1
    /\ generated_rule["cp"]
    /\ \E n \in Lines("build") :
           file_handler[n] = <<"build", <<"o", "/", "a", "p", "p">>, "cp",
                               <<<<"a", "p", "p">>>>>>

(***************************************************************************)
(* Claims about eval_expr                                                  *)
(***************************************************************************)
\* eval_expr has returned or raised
Finished == e_pc \in {"returned", "raised"}

\* every name a substitution pass looked up is a key of `vars`
AllPresent == e_refs \subseteq DOMAIN e_vars

\* the expression as given references a self-referential variable
ExprRefsCycle == CycRef(Replace(old_expr, <<"$", "$">>, Sentinel))

(***************************************************************************)
(* C8 as stated: when every reference met, in the expression and in the    *)
(* values substituted for references, is a key of the mapping (and no `$`  *)
(* is malformed), eval_expr returns, after at most 16 rounds, a string in  *)
(* which no `$` is left to resolve.                                        *)
(***************************************************************************)
C8_Original ==
    (Finished /\ AllPresent /\ e_out.kind # "invalid") =>
        /\ e_out.kind = "return"
        /\ Rounds <= MaxStep
        /\ ~HasDollar(expr)

(***************************************************************************)
(* C8 amended: eval_expr never performs more than 16 rounds; when every    *)
(* reference met is a key of the mapping it either returns, after fewer    *)
(* than 16 rounds, a string with no `$` left to resolve, or raises the     *)
(* recursion-limit error after exactly 16 rounds (or ValueError, on a      *)
(* malformed `$`).                                                         *)
(***************************************************************************)
C8_BoundedRounds ==
    /\ Rounds \in 0..MaxStep
    /\ (Finished /\ AllPresent) =>
           \/ e_out.kind = "return" /\ ~HasDollar(expr) /\ Rounds < MaxStep
           \/ e_out.kind = "max_step" /\ Rounds = MaxStep
           \/ e_out.kind = "invalid"

\* a chain of 15 variables, all present, resolved in 15 rounds
C8_Witness ==
    /\ e_pc = "returned"
    /\ AllPresent
    /\ Cardinality(e_refs) = 15
    /\ Rounds = 15
    /\ e_out.val = <<"/">>

(***************************************************************************)
(* C9: eval_expr raises the recursion-limit error only if the 16 passes    *)
(* are used up while a `$` is left in the string; when a pass, the 16th    *)
(* included, leaves no `$`, it returns the resolved string.                *)
(***************************************************************************)
C9_FailsOnlyIfUnresolved ==
    /\ e_out.kind = "max_step" => HasDollar(expr)
    /\ (Finished /\ ~HasDollar(expr)) => e_out.kind = "return"

(***************************************************************************)
(* C10 as stated: evaluating an expression that references a variable      *)
(* whose value leads back to itself performs exactly 16 rounds and then    *)
(* raises the recursion-limit error (no `$` of it being malformed).        *)
(***************************************************************************)
C10_Original ==
    (Finished /\ ExprRefsCycle /\ e_out.kind # "invalid") =>
        e_out.kind = "max_step" /\ Rounds = MaxStep

(***************************************************************************)
(* C10 amended: no evaluation performs more than 16 rounds; when the       *)
(* expression, and the string each round leaves, references a              *)
(* self-referential variable, the evaluation does not return: it raises    *)
(* the recursion-limit error after exactly 16 rounds, unless a round meets *)
(* an absent key or a malformed `$` and raises that error first.           *)
(***************************************************************************)
C10_SelfReference ==
    /\ max_step >= 0
    /\ (Finished /\ e_cyc) =>
           \/ e_out.kind = "max_step" /\ Rounds = MaxStep
           \/ e_out.kind \in {"undefined", "invalid"}

\* `$a` with a = `$a`: 16 rounds, then the recursion-limit error
C10_Witness ==
    /\ e_pc = "raised"
    /\ e_cyc
    /\ old_expr = <<"$", "a">>
    /\ e_vars = (<<"a">> :> <<"$", "a">>)
    /\ e_out.kind = "max_step"
    /\ Rounds = 16

(***************************************************************************)
(* C11 as stated: when the expression, or the string some number of passes *)
(* left, references a key absent from the mapping (no `$` being            *)
(* malformed), eval_expr raises the undefined-variable error.              *)
(***************************************************************************)
C11_Original ==
    (Finished /\ e_out.kind # "invalid"
              /\ ~(e_refs \cup Refs(expr) \subseteq DOMAIN e_vars)) =>
        e_out.kind = "undefined"

(***************************************************************************)
(* C11 amended: when a substitution pass is given a string that references *)
(* an absent key, eval_expr does not return and does not raise the         *)
(* recursion-limit error: it raises the undefined-variable error, which    *)
(* names an absent key of that string and gives the original expression    *)
(* (or ValueError, when a malformed `$` stands in that string).  Whatever   *)
(* is returned was produced by passes that found every key.                *)
(***************************************************************************)
C11_AbsentKey ==
    /\ (Finished /\ ~AllPresent) => e_out.kind \in {"undefined", "invalid"}
    /\ e_out.kind = "undefined" =>
           /\ e_pc = "raised"
           /\ e_out.name \in Refs(expr) \ DOMAIN e_vars
           /\ e_out.val = old_expr
    /\ e_out.kind = "return" => AllPresent /\ Refs(expr) = {}

\* the absent key b is met in the third pass
C11_Witness ==
    /\ e_pc = "raised"
    /\ e_out.kind = "undefined"
    /\ e_out.name = <<"b">>
    /\ Rounds = 2
    /\ old_expr = <<"/", "$", "a", "/">>

\* the expression holds an escaped `$$` and, the escapes aside, no `$`
OnlyEscapes ==
    /\ Replace(old_expr, <<"$", "$">>, Sentinel) # old_expr
    /\ ~HasDollar(Replace(old_expr, <<"$", "$">>, Sentinel))

(***************************************************************************)
(* C12: escaping round-trips.  An expression whose only `$` are escaped    *)
(* `$$` is returned with every `$$` replaced by one `$` and nothing else   *)
(* changed, and no substitution pass is spent on it.                       *)
(***************************************************************************)
C12_EscapeRoundTrip ==
    (Finished /\ OnlyEscapes) =>
        /\ e_out.kind = "return"
        /\ Rounds = 0
        /\ e_out.val = Replace(old_expr, <<"$", "$">>, <<"$">>)

====
